---- MODULE Spec2Model ----
(***************************************************************************)
(* PersonalTradeAssist: the full update cycle (main.py update_data), the   *)
(* HTTP handlers that read the published globals, and the CoinGecko proxy  *)
(* cache (modules/coingecko_proxy.py).                                     *)
(*                                                                         *)
(* Number representation.  Prices are integers (ticks).  A percentage is   *)
(* an integer in units of 1/Scale percent, so that round(x, 4) has         *)
(* something to round.  An RSI is an integer in units of 1/RsiUnit.  A     *)
(* Python value that may be None is a sequence: <<>> is None, <<v>> is v.  *)
(* A Python dict is a function; its keys are its DOMAIN.                   *)
(***************************************************************************)
EXTENDS Integers, Sequences, FiniteSets, TLC

----------------------------------------------------------------------------
(* Values *)

None == << >>

Some(v) == << v >>

IsNone(x) == x = << >>

Val(x) == x[1]

Scale == 10 ^ 5

RsiUnit == 10 ^ 2

\* x percent, in the model's unit
Pct(n) == n * Scale

\* num / den * 100, in the model's unit
PercentOf(num, den) == (num * 100 * Scale) \div den

\* round(x, 4) of a percentage: to the nearest 10 units, ties to even
Round4(x) ==
    LET q == x \div 10
        r == x % 10
    IN  IF r < 5 THEN q * 10
        ELSE IF r > 5 THEN (q + 1) * 10
        ELSE IF q % 2 = 0 THEN q * 10 ELSE (q + 1) * 10

EmptyDict == [k \in {} |-> None]

\* d[k] if k is a key of d, else dflt  (dict.get)
Get(d, k, dflt) == IF k \in DOMAIN d THEN d[k] ELSE dflt

\* d with d[k] = v  (d[k] = v on a dict)
Put(d, k, v) == [x \in (DOMAIN d) \cup {k} |-> IF x = k THEN v ELSE d[x]]

RECURSIVE SumSeq(_)
SumSeq(s) == IF s = << >> THEN 0 ELSE Head(s) + SumSeq(Tail(s))

----------------------------------------------------------------------------
(* float(): the strings a Bybit payload carries for a price, and what      *)
(* float() makes of them.  "" and "abc" raise ValueError.                  *)

NumericStrings ==
    { "0", "990", "997", "999", "1000", "1001", "1003", "1020", "1200" }

CanFloat(s) == s \in NumericStrings

Float(s) ==
    CASE s = "0" -> 0
      [] s = "990" -> 990
      [] s = "997" -> 997
      [] s = "999" -> 999
      [] s = "1000" -> 1000
      [] s = "1001" -> 1001
      [] s = "1003" -> 1003
      [] s = "1020" -> 1020
      [] s = "1200" -> 1200

----------------------------------------------------------------------------
(* main.py: determine_volatility_zone, estimate_time_to_tp *)

determine_volatility_zone(volatility) ==
    IF IsNone(volatility) THEN << "Unknown Volatility", "Unknown Strategy" >>
    ELSE IF Val(volatility) <= Pct(3)
         THEN << "Very Low Volatility", "Micro Scalping Strategy" >>
    ELSE IF Val(volatility) <= Pct(7)
         THEN << "Low Volatility", "Short-Term Tight Strategy" >>
    ELSE IF Val(volatility) <= Pct(12)
         THEN << "Medium Volatility", "Balanced Normal Strategy" >>
    ELSE IF Val(volatility) <= Pct(18)
         THEN << "High Volatility", "Flexible Swing Strategy" >>
    ELSE << "Very High Volatility", "Big Swing Survival Strategy" >>

\* 'Low' in volatility_zone
ContainsLow(zone) == zone \in { "Very Low Volatility", "Low Volatility" }

\* an estimate from the score alone
EstimateByScoreAlone(score, volatility_zone) ==
    IF IsNone(score) \/ IsNone(volatility_zone) THEN "Uncertain"
    ELSE IF Val(score) >= 7 THEN "1-3 hours"
    ELSE IF Val(score) >= 5 THEN "4-6 hours"
    ELSE IF Val(score) >= 3 THEN "6-12 hours"
    ELSE "Uncertain"

\* an estimate that gives the shortest label from a score of 6
EstimateFromSix(score, volatility_zone) ==
    IF IsNone(score) \/ IsNone(volatility_zone) THEN "Uncertain"
    ELSE IF Val(score) >= 6 /\ ContainsLow(Val(volatility_zone)) THEN "1-3 hours"
    ELSE IF Val(score) >= 5 THEN "4-6 hours"
    ELSE IF Val(score) >= 3 THEN "6-12 hours"
    ELSE "Uncertain"

estimate_time_to_tp(score, volatility_zone) ==
    IF IsNone(score) \/ IsNone(volatility_zone) THEN "Uncertain"
    ELSE IF Val(score) >= 7 /\ ContainsLow(Val(volatility_zone)) THEN "1-3 hours"
    ELSE IF Val(score) >= 5 THEN "4-6 hours"
    ELSE IF Val(score) >= 3 THEN "6-12 hours"
    ELSE "Uncertain"

----------------------------------------------------------------------------
(* modules/momentum_analysis.py *)

\* np.diff
Diff(closes) == [i \in 1 .. (Len(closes) - 1) |-> closes[i + 1] - closes[i]]

Gain(delta) == [i \in 1 .. Len(delta) |-> IF delta[i] > 0 THEN delta[i] ELSE 0]

Loss(delta) == [i \in 1 .. Len(delta) |-> IF delta[i] < 0 THEN 0 - delta[i] ELSE 0]

RECURSIVE Gcd(_, _)
Gcd(a, b) == IF b = 0 THEN a ELSE Gcd(b, a % b)

\* Wilder's smoothing from delta index i on.  The averages are the
\* fractions g / d and l / d (g2 / d2 is brought to lowest terms before
\* it is put over the denominator of 0.00001).
RECURSIVE Wilder(_, _, _, _, _, _, _)
Wilder(gain, loss, period, i, g, l, d) ==
    IF i > Len(gain) THEN << g, l, d >>
    ELSE LET g2 == g * (period - 1) + gain[i] * d
             l2 == l * (period - 1) + loss[i] * d
             d2 == d * period
         IN  IF l2 = 0
             THEN \* avg_loss = 0.00001
                  LET c == Gcd(g2, d2)
                  IN  Wilder(gain, loss, period, i + 1, (g2 \div c) * 100000,
                             d2 \div c, (d2 \div c) * 100000)
             ELSE Wilder(gain, loss, period, i + 1, g2, l2, d2)

\* round(100 * n / m, 2) in units of 1/RsiUnit, ties to even
RoundShare(n, m) ==
    LET q == (100 * RsiUnit * n) \div m
        r2 == 2 * ((100 * RsiUnit * n) % m)
    IN  IF r2 < m THEN q
        ELSE IF r2 > m THEN q + 1
        ELSE IF q % 2 = 0 THEN q ELSE q + 1

\* round(100 * g / (g + l), 2) in units of 1/RsiUnit, ties to even; the
\* share of the gains is 100 less the share of the losses
RoundRsi(g, l) ==
    IF g <= l THEN RoundShare(g, g + l)
    ELSE 100 * RsiUnit - RoundShare(l, g + l)

\* an RSI that is neutral whenever the first averages show no loss
RsiNeutralWithoutLoss(closes, period) ==
    IF Len(closes) < period + 1 THEN None
    ELSE LET delta == Diff(closes)
             gain == Gain(delta)
             loss == Loss(delta)
             g0 == SumSeq(SubSeq(gain, 1, period))
             l0 == SumSeq(SubSeq(loss, 1, period))
         IN  IF l0 = 0
             THEN Some(50 * RsiUnit)
             ELSE LET w == Wilder(gain, loss, period, period + 1, g0, l0, period)
                  IN  Some(RoundRsi(w[1], w[2]))

\* closes is None (<<>> is also the empty list: both give None here) or a
\* list of numbers
calculate_rsi(closes, period) ==
    IF Len(closes) < period + 1 THEN None
    ELSE LET delta == Diff(closes)
             gain == Gain(delta)
             loss == Loss(delta)
             g0 == SumSeq(SubSeq(gain, 1, period))
             l0 == SumSeq(SubSeq(loss, 1, period))
         IN  IF l0 = 0
             THEN IF g0 = 0 THEN Some(50 * RsiUnit) ELSE Some(100 * RsiUnit)
             ELSE LET w == Wilder(gain, loss, period, period + 1, g0, l0, period)
                  IN  Some(RoundRsi(w[1], w[2]))

detect_volume_divergence(volumes, lookback) ==
    IF Len(volumes) < lookback THEN FALSE
    ELSE LET recent == SubSeq(volumes, Len(volumes) - lookback + 1, Len(volumes))
         IN  \A i \in 2 .. lookback : recent[i] < recent[i - 1]

\* the checks in another order: the RSI ranges before the divergence
HealthOversoldFirst(rsi, volume_divergence) ==
    IF IsNone(rsi) THEN "unknown"
    ELSE IF Val(rsi) > 75 * RsiUnit THEN "weak"
    ELSE IF Val(rsi) < 30 * RsiUnit THEN "oversold but healthy"
    ELSE IF volume_divergence = Some(TRUE) THEN "weak"
    ELSE IF 40 * RsiUnit <= Val(rsi) /\ Val(rsi) <= 65 * RsiUnit THEN "strong"
    ELSE "neutral"

\* volume_divergence is None, <<TRUE>> or <<FALSE>>
calculate_momentum_health(rsi, volume_divergence) ==
    IF IsNone(rsi) THEN "unknown"
    ELSE IF volume_divergence = Some(TRUE) THEN "weak"
    ELSE IF Val(rsi) > 75 * RsiUnit THEN "weak"
    ELSE IF Val(rsi) < 30 * RsiUnit THEN "oversold but healthy"
    ELSE IF 40 * RsiUnit <= Val(rsi) /\ Val(rsi) <= 65 * RsiUnit THEN "strong"
    ELSE "neutral"

----------------------------------------------------------------------------
(* modules/breakout_scoring.py *)

CG_COMMUNITY_SCORE_THRESHOLD == 60

CG_DEVELOPER_SCORE_THRESHOLD == 65

CG_PUBLIC_INTEREST_SCORE_THRESHOLD == 30

CG_SENTIMENT_THRESHOLD == 70

\* calculate_breakout_score with the penalty for weak momentum that the
\* source keeps commented out (lines 62-65)
ScoreWithWeakPenalty(sig) ==
      (IF sig.momentum_health = "strong" THEN 2
       ELSE IF sig.momentum_health = "oversold but healthy" THEN 1
       ELSE IF sig.momentum_health = "weak" THEN 0 - 1 ELSE 0)
    + (IF IsNone(sig.rsi) THEN 0
       ELSE IF 40 * RsiUnit <= Val(sig.rsi) /\ Val(sig.rsi) < 70 * RsiUnit THEN 1
       ELSE IF Val(sig.rsi) >= 75 * RsiUnit THEN 0 - 1 ELSE 0)
    + (IF sig.volume_rising THEN 1 ELSE 0)
    + (IF ~IsNone(sig.spread_percent) /\ Val(sig.spread_percent) < Pct(1) \div 2
       THEN 1 ELSE 0)
    + (IF sig.news_sentiment = "positive" THEN 1
       ELSE IF sig.news_sentiment = "negative" THEN 0 - 1 ELSE 0)
    + (IF ~IsNone(sig.cg_community_score)
          /\ Val(sig.cg_community_score) >= CG_COMMUNITY_SCORE_THRESHOLD
       THEN 1 ELSE 0)
    + (IF ~IsNone(sig.cg_developer_score)
          /\ Val(sig.cg_developer_score) >= CG_DEVELOPER_SCORE_THRESHOLD
       THEN 1 ELSE 0)
    + (IF ~IsNone(sig.cg_public_interest_score)
          /\ Val(sig.cg_public_interest_score) >= CG_PUBLIC_INTEREST_SCORE_THRESHOLD
       THEN 1 ELSE 0)
    + (IF ~IsNone(sig.cg_sentiment_percentage)
          /\ Val(sig.cg_sentiment_percentage) >= CG_SENTIMENT_THRESHOLD
       THEN 1 ELSE 0)
    + (IF sig.orderbook_thin THEN 0 - 1 ELSE 0)
    + (IF sig.btc_inflow_spike THEN 0 - 2 ELSE 0)

\* sig: the keyword arguments of calculate_breakout_score, as a record
calculate_breakout_score(sig) ==
      (IF sig.momentum_health = "strong" THEN 2
       ELSE IF sig.momentum_health = "oversold but healthy" THEN 1 ELSE 0)
    + (IF IsNone(sig.rsi) THEN 0
       ELSE IF 40 * RsiUnit <= Val(sig.rsi) /\ Val(sig.rsi) < 70 * RsiUnit THEN 1
       ELSE IF Val(sig.rsi) >= 75 * RsiUnit THEN 0 - 1 ELSE 0)
    + (IF sig.volume_rising THEN 1 ELSE 0)
    + (IF ~IsNone(sig.spread_percent) /\ Val(sig.spread_percent) < Pct(1) \div 2
       THEN 1 ELSE 0)
    + (IF sig.news_sentiment = "positive" THEN 1
       ELSE IF sig.news_sentiment = "negative" THEN 0 - 1 ELSE 0)
    + (IF ~IsNone(sig.cg_community_score)
          /\ Val(sig.cg_community_score) >= CG_COMMUNITY_SCORE_THRESHOLD
       THEN 1 ELSE 0)
    + (IF ~IsNone(sig.cg_developer_score)
          /\ Val(sig.cg_developer_score) >= CG_DEVELOPER_SCORE_THRESHOLD
       THEN 1 ELSE 0)
    + (IF ~IsNone(sig.cg_public_interest_score)
          /\ Val(sig.cg_public_interest_score) >= CG_PUBLIC_INTEREST_SCORE_THRESHOLD
       THEN 1 ELSE 0)
    + (IF ~IsNone(sig.cg_sentiment_percentage)
          /\ Val(sig.cg_sentiment_percentage) >= CG_SENTIMENT_THRESHOLD
       THEN 1 ELSE 0)
    + (IF sig.orderbook_thin THEN 0 - 1 ELSE 0)
    + (IF sig.btc_inflow_spike THEN 0 - 2 ELSE 0)

----------------------------------------------------------------------------
(* State *)

VARIABLES
    \* main.py globals
    market_data,              \* symbol (e.g. "BTCUSDT") -> ticker
    sentiment_data,           \* the published snapshot, a dict mutated in place
    basic_coin_data,
    last_full_update_time,    \* None or a time
    last_basic_update_time,   \* None or a time
    basic_pc,                 \* "pending" until __main__ has called
                              \* fetch_and_process_basic_data, then "done"
    \* the clock (datetime.now(), time.time()), in units of 30 minutes
    now,
    \* the scheduler thread running update_data
    ud_pc,                    \* "idle", "loop", or the publish statement to run next
    bybit_market_data,        \* update_data's local: this cycle's fetch
    orderbook_data,           \* update_data's local: the last order book fetched
    potential_coins,          \* update_data's local: the candidates, in order
    coin_index,               \* how many candidates the loop has gone through
    processed_coins_data,     \* update_data's local list
    skipped_coins,            \* update_data's local Counter
    fear_greed,               \* update_data's locals fear_greed_score, _class
    context,                  \* update_data's locals reddit_mentions, sector_lookup,
                              \* cryptopanic_news
    cycle_result,             \* how the last call of update_data ended
    calls,                    \* the provider calls of the running cycle, by candidate
    \* an HTTP handler's response on its way out (None when there is none)
    resp,
    \* whether a snapshot with at least one coin has been stored since the
    \* start (a history variable: the program keeps no such record)
    ever_published,
    \* modules/coingecko_proxy.py globals
    _COIN_LIST_CACHE,         \* SYMBOL -> slug
    _COIN_DETAIL_CACHE,       \* slug -> << time, metrics >>
    _LIST_CACHE_LAST_UPDATED,
    \* the threads calling fetch_coingecko_metrics: where each is in it
    cg,
    \* the calls of fetch_coingecko_metrics completed so far, latest first
    \* (the last two are kept)
    cg_done,
    \* the sleeps between the requests sent to CoinGecko: slept is what the
    \* sender has slept since the last request went out, shortest the least
    \* that was slept between two consecutive requests (None before any)
    cg_wire,
    \* a function called on its own: the call (None when the program runs as
    \* a whole) and what it returned (None until it has)
    args,
    returned

mainVars ==
    << market_data, sentiment_data, basic_coin_data, last_full_update_time,
       last_basic_update_time, basic_pc, ud_pc, bybit_market_data,
       orderbook_data, potential_coins, coin_index, processed_coins_data, skipped_coins,
       fear_greed, context, cycle_result, calls, resp, ever_published >>

proxyVars == << _COIN_LIST_CACHE, _COIN_DETAIL_CACHE, _LIST_CACHE_LAST_UPDATED >>

callerVars == << cg, cg_done, cg_wire >>

pureVars == << args, returned >>

vars == << mainVars, now, proxyVars, callerVars, pureVars >>

----------------------------------------------------------------------------
(* modules/coingecko_proxy.py: the caches, sequentially *)

\* in units of 30 minutes
LIST_CACHE_REFRESH_INTERVAL == 12

COIN_DETAIL_CACHE_DURATION == 4

\* str.upper() on the symbols of the model
Upper(s) ==
    CASE s = "btc" -> "BTC"
      [] s = "eth" -> "ETH"
      [] OTHER -> s

\* GET /coins/list: None when _fetch_all_coins_list fails, else the list
\* of {symbol, id} entries
CoinListResponses ==
    { None,
      << [symbol |-> "btc", id |-> "bitcoin"],
         [symbol |-> "eth", id |-> "ethereum"],
         [symbol |-> "btc", id |-> "bitcoin-clone"] >>,
      << [symbol |-> "btc", id |-> "bitcoin"] >> }

\* GET /coins/{id}: how the request ends, and the body of a 200
DetailBodies ==
    { [sentiment_votes_up_percentage |-> 80, community_score |-> 70,
       developer_score |-> 70, public_interest_score |-> 40],
      [sentiment_votes_up_percentage |-> 50] }

DetailFailures == { "http429", "http404", "http500", "transport", "json" }

DetailResponses ==
    [kind : {"ok"}, data : DetailBodies]
        \cup [kind : DetailFailures, data : {EmptyDict}]

\* the loop of _update_coin_list_cache over the fetched list: the first
\* slug met for a symbol is kept
RECURSIVE BuildListCache(_, _)
BuildListCache(coins_list, new_cache) ==
    IF coins_list = << >> THEN new_cache
    ELSE LET coin == Head(coins_list)
             symbol == Upper(coin.symbol)
         IN  BuildListCache(Tail(coins_list),
                 IF symbol \in DOMAIN new_cache THEN new_cache
                 ELSE Put(new_cache, symbol, coin.id))

\* an update that drops the mapping when the fetch failed
UpdateDroppingOnFailure(force_update, coins_list, t) ==
    IF ~force_update /\ _COIN_LIST_CACHE # EmptyDict
       /\ (t - _LIST_CACHE_LAST_UPDATED) < LIST_CACHE_REFRESH_INTERVAL
    THEN << _COIN_LIST_CACHE, _LIST_CACHE_LAST_UPDATED, 0 >>
    ELSE IF coins_list = None
         THEN << EmptyDict, t, 1 >>
         ELSE << BuildListCache(coins_list, EmptyDict), t, 1 >>

\* _update_coin_list_cache at time t, _fetch_all_coins_list answering
\* coins_list: << _COIN_LIST_CACHE, _LIST_CACHE_LAST_UPDATED, requests >> after it
_update_coin_list_cache(force_update, coins_list, t) ==
    IF ~force_update /\ _COIN_LIST_CACHE # EmptyDict
       /\ (t - _LIST_CACHE_LAST_UPDATED) < LIST_CACHE_REFRESH_INTERVAL
    THEN << _COIN_LIST_CACHE, _LIST_CACHE_LAST_UPDATED, 0 >>
    ELSE IF coins_list = None
         THEN << _COIN_LIST_CACHE, _LIST_CACHE_LAST_UPDATED, 1 >>
         ELSE << BuildListCache(coins_list, EmptyDict), t, 1 >>

ListStale(t) ==
    \/ _COIN_LIST_CACHE = EmptyDict
    \/ (t - _LIST_CACHE_LAST_UPDATED) > LIST_CACHE_REFRESH_INTERVAL

\* _get_slug_for_symbol at time t:
\* << slug or None, _COIN_LIST_CACHE, _LIST_CACHE_LAST_UPDATED, requests >>
_get_slug_for_symbol(symbol, coins_list, t) ==
    IF ~ListStale(t)
    THEN << IF Upper(symbol) \in DOMAIN _COIN_LIST_CACHE
            THEN Some(_COIN_LIST_CACHE[Upper(symbol)]) ELSE None,
            _COIN_LIST_CACHE, _LIST_CACHE_LAST_UPDATED, 0 >>
    ELSE LET u == _update_coin_list_cache(FALSE, coins_list, t)
         IN  << IF Upper(symbol) \in DOMAIN u[1]
                THEN Some(u[1][Upper(symbol)]) ELSE None,
                u[1], u[2], u[3] >>

\* data.get(key)
DataGet(data, key) == IF key \in DOMAIN data THEN Some(data[key]) ELSE None

\* the metrics dict built from a 200 body (lines 185-189; the follower and
\* rank fields, which nothing reads, are left out)
ExtractMetrics(coin_id, data) ==
    [cg_slug |-> Some(coin_id),
     cg_sentiment_votes_up_percentage |-> DataGet(data, "sentiment_votes_up_percentage"),
     cg_community_score |-> DataGet(data, "community_score"),
     cg_developer_score |-> DataGet(data, "developer_score"),
     cg_public_interest_score |-> DataGet(data, "public_interest_score")]

\* a cache check that finds nothing
CacheLookupMiss(coin_id, t) == None

\* the detail-cache check under the lock (lines 163-169): the cached data
\* on a hit, None on a miss or a stale entry
CacheLookup(coin_id, t) ==
    IF coin_id \in DOMAIN _COIN_DETAIL_CACHE
       /\ (t - _COIN_DETAIL_CACHE[coin_id][1]) < COIN_DETAIL_CACHE_DURATION
    THEN Some(_COIN_DETAIL_CACHE[coin_id][2])
    ELSE None

\* what fetch_coingecko_metrics returns once its request has ended with
\* response (lines 180-229)
RequestResult(coin_id, response) ==
    IF response.kind = "ok" THEN ExtractMetrics(coin_id, response.data)
    ELSE EmptyDict

\* a cache that is written whatever the request came to
CacheAfterAnyRequest(coin_id, response, t) ==
    Put(_COIN_DETAIL_CACHE, coin_id, << t, RequestResult(coin_id, response) >>)

\* _COIN_DETAIL_CACHE once the request has ended (lines 203-205): written
\* on success only, with the time taken at line 160
CacheAfterRequest(coin_id, response, t) ==
    IF response.kind = "ok"
    THEN Put(_COIN_DETAIL_CACHE, coin_id,
             << t, ExtractMetrics(coin_id, response.data) >>)
    ELSE _COIN_DETAIL_CACHE

\* fetch_coingecko_metrics run by one thread with no other caller:
\* its result, the three globals after it, and the requests it sent
fetch_coingecko_metrics(symbol, coins_list, response, t) ==
    LET s == _get_slug_for_symbol(symbol, coins_list, t)
    IN  IF IsNone(s[1])
        THEN [result |-> EmptyDict, list |-> s[2], updated |-> s[3],
              detail |-> _COIN_DETAIL_CACHE, list_requests |-> s[4],
              detail_requests |-> 0]
        ELSE LET coin_id == Val(s[1])
                 hit == CacheLookup(coin_id, t)
             IN  IF ~IsNone(hit)
                 THEN [result |-> Val(hit), list |-> s[2], updated |-> s[3],
                       detail |-> _COIN_DETAIL_CACHE, list_requests |-> s[4],
                       detail_requests |-> 0]
                 ELSE [result |-> RequestResult(coin_id, response),
                       list |-> s[2], updated |-> s[3],
                       detail |-> CacheAfterRequest(coin_id, response, t),
                       list_requests |-> s[4], detail_requests |-> 1]

----------------------------------------------------------------------------
(* modules/coingecko_proxy.py: fetch_coingecko_metrics as threads run it *)

Threads == { "t1", "t2" }

\* the symbols a caller asks for; "DOGE" is in no coin list of the model
CallerSymbols == { "BTC", "ETH", "DOGE" }

MaxClock == 4

\* the sleeps, in half seconds: 6.0 s in coingecko_proxy.py
COINGECKO_DELAY == 12

\* 1.5 s in coingecko_api.py (its own COINGECKO_DELAY)
COINGECKO_API_DELAY == 3

Min(a, b) == IF a < b THEN a ELSE b

\* wire once a request has gone out after a sleep of before, the sender
\* sleeping after once it has the answer.  What is slept counts up to
\* COINGECKO_DELAY.
Sent(wire, before, after) ==
    LET gap == Min(COINGECKO_DELAY, wire.slept + before)
    IN  [slept |-> after,
         shortest |-> IF IsNone(wire.shortest) THEN Some(gap)
                      ELSE Some(Min(Val(wire.shortest), gap))]

\* the list request of _fetch_all_coins_list (lines 39-45): no sleep before
\* it, COINGECKO_DELAY after it when it succeeded
SentList(wire, coins_list) ==
    Sent(wire, 0, IF coins_list = None THEN 0 ELSE COINGECKO_DELAY)

\* the detail request of fetch_coingecko_metrics (lines 178-180):
\* COINGECKO_DELAY before it, nothing after it
SentDetail(wire) == Sent(wire, COINGECKO_DELAY, 0)

\* wire after a whole call of fetch_coingecko_metrics that sent
\* list_requests list requests and detail_requests detail requests
WireAfterCall(wire, list_requests, coins_list, detail_requests) ==
    LET w == IF list_requests > 0 THEN SentList(wire, coins_list) ELSE wire
    IN  IF detail_requests > 0 THEN SentDetail(w) ELSE w

IdleCaller == [pc |-> "idle", symbol |-> "", coin_id |-> "", t |-> 0]

\* a completed call: outcome is "no_slug", "hit", "ok" (a request that
\* succeeded) or "failed" (a request that did not)
CallRecord(symbol, coin_id, t, outcome, result) ==
    [symbol |-> symbol, coin_id |-> coin_id, t |-> t, outcome |-> outcome,
     result |-> result]

Completed(rec) == SubSeq(<< rec >> \o cg_done, 1, IF Len(cg_done) = 0 THEN 1 ELSE 2)

\* time passes
Tick ==
    /\ now < MaxClock
    /\ basic_pc = "done"
    /\ resp = None
    /\ now' = now + 1
    /\ cg_wire' = [cg_wire EXCEPT !.slept = COINGECKO_DELAY]
    /\ UNCHANGED << pureVars, mainVars, proxyVars, cg, cg_done >>

\* lines 155-172: the slug lookup (with the list refresh it may make), the
\* time taken at line 160 and the cache check under _CACHE_LOCK.  On a miss
\* the thread goes on, outside the lock, to the delay of line 178.
CG_Enter(th, symbol, coins_list) ==
    /\ cg[th].pc = "idle"
    /\ LET s == _get_slug_for_symbol(symbol, coins_list, now)
       IN  /\ _COIN_LIST_CACHE' = s[2]
           /\ _LIST_CACHE_LAST_UPDATED' = s[3]
           /\ cg_wire' = WireAfterCall(cg_wire, s[4], coins_list, 0)
           /\ IF IsNone(s[1])
              THEN /\ cg_done' = Completed(CallRecord(symbol, None, now, "no_slug", EmptyDict))
                   /\ UNCHANGED cg
              ELSE LET hit == CacheLookup(Val(s[1]), now)
                   IN  IF ~IsNone(hit)
                       THEN /\ cg_done' = Completed(CallRecord(symbol, s[1], now, "hit", Val(hit)))
                            /\ UNCHANGED cg
                       ELSE /\ cg' = [cg EXCEPT ![th] =
                                        [pc |-> "delay", symbol |-> symbol,
                                         coin_id |-> Val(s[1]), t |-> now]]
                            /\ UNCHANGED cg_done
    /\ UNCHANGED << pureVars, mainVars, now, _COIN_DETAIL_CACHE >>

\* line 180: after the delay the request goes out
CG_Send(th) ==
    /\ cg[th].pc = "delay"
    /\ cg' = [cg EXCEPT ![th].pc = "request"]
    /\ cg_wire' = SentDetail(cg_wire)
    /\ UNCHANGED << pureVars, mainVars, now, proxyVars, cg_done >>

\* lines 181-229: the request ends; a 200 is stored under _CACHE_LOCK
CG_Response(th, response) ==
    /\ cg[th].pc = "request"
    /\ _COIN_DETAIL_CACHE' = CacheAfterRequest(cg[th].coin_id, response, cg[th].t)
    /\ cg_done' = Completed(CallRecord(cg[th].symbol, Some(cg[th].coin_id), cg[th].t,
                                       IF response.kind = "ok" THEN "ok" ELSE "failed",
                                       RequestResult(cg[th].coin_id, response)))
    /\ cg' = [cg EXCEPT ![th] = IdleCaller]
    /\ UNCHANGED cg_wire
    /\ UNCHANGED << pureVars, mainVars, now, _COIN_LIST_CACHE, _LIST_CACHE_LAST_UPDATED >>

----------------------------------------------------------------------------
(* What the providers answer *)

\* "BTCUSDT".replace("USDT", "")
BaseOf(symbol_usdt) ==
    CASE symbol_usdt = "BTCUSDT" -> "BTC"
      [] symbol_usdt = "ETHUSDT" -> "ETH"
      [] OTHER -> symbol_usdt

EndsWithUSDT(symbol) == symbol \in { "BTCUSDT", "ETHUSDT" }

\* the order of the tickers in Bybit's list, which is the order of the
\* dict fetch_market_data builds
TickerOrder == << "BTCUSDT", "ETHUSDT", "BTCUSDC" >>

Ticker(symbol, last, high, low) ==
    [symbol |-> symbol, lastPrice |-> last, highPrice24h |-> high, lowPrice24h |-> low]

\* the tickers a symbol may have: a 2 % range, a 20 % range, a lastPrice
\* and a highPrice24h that are no numbers
TickersOf(symbol) ==
    { Ticker(symbol, "1000", "1020", "1000"),
      Ticker(symbol, "1000", "1200", "1000"),
      Ticker(symbol, "", "1020", "1000"),
      Ticker(symbol, "1000", "abc", "1000") }

\* what fetch_market_data returns: {} when the request failed, else the
\* ticker map
TickerMaps ==
    { EmptyDict,
      [s \in {"ETHUSDT"} |-> Ticker("ETHUSDT", "1000", "1020", "1000")],
      [s \in {"BTCUSDC", "ETHUSDT"} |->
          IF s = "BTCUSDC" THEN Ticker("BTCUSDC", "", "", "")
          ELSE Ticker("ETHUSDT", "1000", "1200", "1000")] }
        \cup { [s \in {"BTCUSDT", "ETHUSDT"} |->
                  IF s = "BTCUSDT" THEN t ELSE Ticker("ETHUSDT", "1000", "1020", "1000")] :
               t \in TickersOf("BTCUSDT") }

\* an order book: the prices of the bid and ask levels, best first
Book(bids, asks) == [b |-> bids, a |-> asks]

\* what fetch_orderbook returns (bybit_api.py 82-88): None, or the "result"
\* object of Bybit's answer, which it requires to hold "b" and "a".
\* update_data reads the levels one level deeper, under a key 'result' of
\* that object (lines 364-366).  In the format the docstring gives there is
\* no such key; Nested is an answer that carries the levels there as well.
Documented(book) == Some([s |-> "x", b |-> book.b, a |-> book.a])

Nested(book) == Some([s |-> "x", b |-> book.b, a |-> book.a, result |-> book])

EmptyAsks == Book(<< "999" >>, << >>)

Tight == Book(<< "1000" >>, << "1001" >>)

Wide == Book(<< "1000" >>, << "1020" >>)

Crossed == Book(<< "1001" >>, << "1000" >>)

OrderBooks ==
    { None, Documented(Tight), Documented(EmptyAsks),
      Nested(EmptyAsks), Nested(Tight), Nested(Wide), Nested(Crossed) }

\* a candle, of which the code reads the close (c[4]) and the volume (c[5])
Candle(close, volume) == [close |-> close, volume |-> volume]

\* what fetch_candles returns (bybit_api.py 105-111): None, or the "result"
\* object of Bybit's answer, which it requires to hold "list".  The code
\* reads the candles under 'result' then 'list' of that object (lines 101
\* and 409), so as for the order book there is the documented answer and
\* the one that carries the list there as well.
DocumentedCandles(list) == Some([category |-> "spot", list |-> list])

NestedCandles(list) ==
    Some([category |-> "spot", list |-> list, result |-> [list |-> list]])

\* twenty flat candles below the price of the tickers
Flat20 == [i \in 1 .. 20 |-> Candle("990", "1000")]

\* twenty candles above the price of the tickers, falling at the end on
\* shrinking volume
Falling20 ==
    [i \in 1 .. 20 |->
        IF i < 18 THEN Candle("1200", "1000")
        ELSE IF i = 18 THEN Candle("1020", "1000")
        ELSE IF i = 19 THEN Candle("1003", "999") ELSE Candle("1001", "997")]

\* too few candles for any indicator
Short2 == << Candle("990", "1000"), Candle("999", "990") >>

\* a close that is no number
Malformed == << Candle("abc", "1000") >>

\* the answers of the four calls of fetch_candles one candidate's analysis
\* makes: the intervals 15, 60 and 240 in analyze_timeframes, then 60 again
Candles(c15, c60, c240, c1h) == [c15 |-> c15, c60 |-> c60, c240 |-> c240, c1h |-> c1h]

CandleAnswers ==
    { Candles(None, None, None, None),
      Candles(DocumentedCandles(Flat20), DocumentedCandles(Flat20),
              DocumentedCandles(Flat20), DocumentedCandles(Flat20)),
      Candles(NestedCandles(Flat20), NestedCandles(Flat20),
              NestedCandles(Flat20), NestedCandles(Flat20)),
      Candles(NestedCandles(Flat20), NestedCandles(Falling20),
              NestedCandles(Flat20), NestedCandles(Falling20)),
      Candles(NestedCandles(Flat20), NestedCandles(Flat20),
              NestedCandles(Short2), NestedCandles(Short2)),
      Candles(NestedCandles(Flat20), NestedCandles(Flat20),
              NestedCandles(Flat20), NestedCandles(Malformed)) }

\* what fetch_fear_greed_index returns: the index, or its default
FearGreedResults ==
    { [score |-> 50, classification |-> "Neutral"],
      [score |-> 25, classification |-> "Extreme Fear"] }

\* an entry of GET /coins/markets
MarketItem(symbol, categories) == [symbol |-> symbol, categories |-> categories]

\* what the other context fetches of lines 317-319 get: titles, the count
\* of each symbol in the titles of Reddit's new posts (None when the
\* request failed); coingecko_markets, what fetch_coingecko_market_data
\* returns ([] when it failed); cryptopanic_news, what
\* fetch_cryptopanic_news returns ([] when it failed or has no key)
NoContext == [titles |-> None, coingecko_markets |-> << >>, cryptopanic_news |-> << >>]

RichContext ==
    [titles |-> Some([c \in {"BTC", "ETH"} |-> IF c = "BTC" THEN 2 ELSE 1]),
     coingecko_markets |-> << MarketItem("btc", << >>),
                              MarketItem("eth", << "", "Layer 1" >>) >>,
     cryptopanic_news |-> << "ETH rallies" >>]

ContextAnswers == { NoContext, RichContext }

\* main.py 152-178, fetch_reddit_mentions(symbols): a Counter with an
\* entry for every symbol, or the empty Counter when the request failed
fetch_reddit_mentions(symbols, titles) ==
    IF IsNone(titles) THEN EmptyDict
    ELSE [c \in { symbols[i] : i \in 1 .. Len(symbols) } |-> Val(titles)[c]]

\* next((cat for cat in categories if cat), 'Unknown')
RECURSIVE FirstCategory(_)
FirstCategory(categories) ==
    IF categories = << >> THEN "Unknown"
    ELSE IF Head(categories) # "" THEN Head(categories)
    ELSE FirstCategory(Tail(categories))

\* lines 321-324: the dict comprehension over coingecko_markets; a later
\* item replaces an earlier one of the same symbol
RECURSIVE SectorLookup(_)
SectorLookup(coingecko_markets) ==
    IF coingecko_markets = << >> THEN EmptyDict
    ELSE LET n == Len(coingecko_markets)
             item == coingecko_markets[n]
             rest == SectorLookup(SubSeq(coingecko_markets, 1, n - 1))
         IN  IF item.symbol = "" THEN rest
             ELSE Put(rest, Upper(item.symbol), FirstCategory(item.categories))

\* the locals reddit_mentions, sector_lookup and cryptopanic_news before
\* update_data has assigned them
EmptyContext ==
    [reddit_mentions |-> EmptyDict, sector_lookup |-> EmptyDict,
     cryptopanic_news |-> << >>]

----------------------------------------------------------------------------
(* main.py: analyze_timeframes *)

\* calculate_ema: None, or the average as the fraction << n, d >>
RECURSIVE EmaFrom(_, _, _, _, _)
EmaFrom(values, period, i, n, d) ==
    IF i > Len(values) THEN << n, d >>
    ELSE EmaFrom(values, period, i + 1,
                 2 * values[i] * d + (period - 1) * n, d * (period + 1))

\* an average that makes do with the values there are
EmaOfWhatThereIs(values, period) ==
    IF values = << >> THEN None
    ELSE IF Len(values) < period THEN Some(<< SumSeq(values), Len(values) >>)
    ELSE Some(EmaFrom(values, period, period + 1,
                      SumSeq(SubSeq(values, 1, period)), period))

calculate_ema(values, period) ==
    IF values = << >> \/ Len(values) < period THEN None
    ELSE Some(EmaFrom(values, period, period + 1,
                      SumSeq(SubSeq(values, 1, period)), period))

\* candle_data.get('result', {}).get('list') on what fetch_candles
\* returned: None when there is no such key, or when the list is empty
CandleListOf(candle_data) ==
    IF IsNone(candle_data) THEN None
    ELSE IF "result" \notin DOMAIN Val(candle_data) THEN None
    ELSE IF "list" \notin DOMAIN Val(candle_data).result THEN None
    ELSE IF Val(candle_data).result.list = << >> THEN None
    ELSE Some(Val(candle_data).result.list)

\* [float(c[4]) for c in list] raises when a close is no number
ClosesRaise(candle_list) == \E i \in 1 .. Len(candle_list) : ~CanFloat(candle_list[i].close)

VolumesRaise(candle_list) == \E i \in 1 .. Len(candle_list) : ~CanFloat(candle_list[i].volume)

ClosesOf(candle_list) == [i \in 1 .. Len(candle_list) |-> Float(candle_list[i].close)]

VolumesOf(candle_list) == [i \in 1 .. Len(candle_list) |-> Float(candle_list[i].volume)]

\* one round of the loop of analyze_timeframes: the trend of a timeframe
\* ("raise" when float() raised)
TimeframeTrend(candle_data, last_price) ==
    LET l == CandleListOf(candle_data)
    IN  IF IsNone(l) THEN "unknown"
        ELSE IF ClosesRaise(Val(l)) THEN "raise"
        ELSE LET ema20 == calculate_ema(ClosesOf(Val(l)), 20)
             IN  IF IsNone(ema20) THEN "unknown"
                 ELSE IF last_price * Val(ema20)[2] > Val(ema20)[1] THEN "bullish"
                 ELSE "bearish"

\* analyze_timeframes(symbol, last_price), fetch_candles answering c15, c60
\* and c240: raised, bullish_confirm, and the trend per timeframe
analyze_timeframes(last_price, c15, c60, c240) ==
    LET trends == [tf \in {"15m", "1h", "4h"} |->
                      TimeframeTrend(IF tf = "15m" THEN c15
                                     ELSE IF tf = "1h" THEN c60 ELSE c240,
                                     last_price)]
    IN  [raised |-> \E tf \in DOMAIN trends : trends[tf] = "raise",
         bullish_confirm |-> \A tf \in DOMAIN trends : trends[tf] = "bullish",
         results |-> trends]

----------------------------------------------------------------------------
(* main.py: update_data, one candidate of the loop (lines 330-518) *)

SPREAD_THRESHOLD == Pct(3) \div 2

ALLOWED_VOLATILITY_ZONES ==
    { "Very Low Volatility", "Low Volatility", "Medium Volatility" }

\* lines 359-377: << spread_percent, orderbook_thin >> from what
\* fetch_orderbook returned.  The levels are read under the key 'result'
\* of that value.
SpreadOf(book, last_price) ==
    IF IsNone(book) THEN << None, TRUE >>
    ELSE IF "result" \notin DOMAIN Val(book) THEN << None, TRUE >>
    ELSE LET result == Val(book).result
             bids_raw == IF "b" \in DOMAIN result THEN result.b ELSE << >>
             asks_raw == IF "a" \in DOMAIN result THEN result.a ELSE << >>
         IN  IF bids_raw = << >> \/ asks_raw = << >> THEN << None, TRUE >>
             ELSE IF ~CanFloat(bids_raw[1]) \/ ~CanFloat(asks_raw[1])
                  THEN << None, TRUE >>
             ELSE LET best_bid == Float(bids_raw[1])
                      best_ask == Float(asks_raw[1])
                  IN  IF best_ask > best_bid /\ best_bid > 0
                      THEN LET spread_percent ==
                                   PercentOf(best_ask - best_bid, last_price)
                           IN  << Some(spread_percent), spread_percent > SPREAD_THRESHOLD >>
                      ELSE << None, TRUE >>

\* filters without the spread ceiling
EarlyFilterNoCeiling(spread_percent, zone) ==
    IF IsNone(spread_percent) THEN "missing_spread_full"
    ELSE IF zone \notin ALLOWED_VOLATILITY_ZONES THEN "wrong_volatility_full"
    ELSE "pass"

\* filters that count a missing spread as a high one
EarlyFilterOneCounter(spread_percent, zone) ==
    IF IsNone(spread_percent) THEN "high_spread_full"
    ELSE IF Val(spread_percent) > SPREAD_THRESHOLD THEN "high_spread_full"
    ELSE IF zone \notin ALLOWED_VOLATILITY_ZONES THEN "wrong_volatility_full"
    ELSE "pass"

\* lines 383-399, the early filters: the skip counter to increment, or
\* "pass"
EarlyFilter(spread_percent, zone) ==
    IF IsNone(spread_percent) THEN "missing_spread_full"
    ELSE IF Val(spread_percent) > SPREAD_THRESHOLD THEN "high_spread_full"
    ELSE IF zone \notin ALLOWED_VOLATILITY_ZONES THEN "wrong_volatility_full"
    ELSE "pass"

\* lines 332-399 for one candidate: market is market_data.get(symbol_usdt)
\* (None when the key is missing), basic_info the candidate's entry of the
\* basic data (None when missing).  kind is
\*   "market_data_missing"  counted and skipped (line 336)
\*   "continue"             skipped, nothing counted (lines 346, 348)
\*   "raise"                float() raised: the except of line 516
\*   a name of EarlyFilter  counted and skipped
\*   "pass"                 goes on to the analysis
BeforeAnalysis(market, basic_info, book) ==
    LET nothing == [kind |-> "continue", last_price |-> 0, volatility |-> None,
                    zone |-> "", strategy |-> "", spread_percent |-> None,
                    orderbook_thin |-> TRUE, made |-> {}]
    IN  IF IsNone(market) THEN [nothing EXCEPT !.kind = "market_data_missing"]
        ELSE IF Val(market).lastPrice = "" THEN nothing
        ELSE IF ~CanFloat(Val(market).lastPrice) THEN [nothing EXCEPT !.kind = "raise"]
        ELSE IF Float(Val(market).lastPrice) <= 0 THEN nothing
        ELSE LET last_price == Float(Val(market).lastPrice)
                 high_24h_str == Val(market).highPrice24h
                 low_24h_str == Val(market).lowPrice24h
             IN  IF (high_24h_str # "" /\ ~CanFloat(high_24h_str))
                    \/ (low_24h_str # "" /\ ~CanFloat(low_24h_str))
                 THEN [nothing EXCEPT !.kind = "raise"]
                 ELSE LET volatility ==
                              IF high_24h_str # "" /\ low_24h_str # ""
                              THEN Some(PercentOf(Float(high_24h_str) - Float(low_24h_str),
                                                  last_price))
                              ELSE IF ~IsNone(basic_info)
                                   THEN Val(basic_info).volatility_percent
                                   ELSE None
                          zs == determine_volatility_zone(volatility)
                          sp == SpreadOf(book, last_price)
                      IN  [kind |-> EarlyFilter(sp[1], zs[1]),
                           last_price |-> last_price,
                           volatility |-> volatility,
                           zone |-> zs[1], strategy |-> zs[2],
                           spread_percent |-> sp[1],
                           orderbook_thin |-> sp[2],
                           made |-> {"orderbook"}]

\* cg_metrics.get(key) on what fetch_coingecko_metrics returned
MetricsGet(cg_metrics, key) == IF key \in DOMAIN cg_metrics THEN cg_metrics[key] ELSE None

\* lines 405-419, the candles and the indicators of a candidate that
\* passed the filters
Indicators(last_price, c15, c60, c240, c1h) ==
    LET mtf == analyze_timeframes(last_price, c15, c60, c240)
        l == CandleListOf(c1h)
        raised == mtf.raised
                    \/ (~IsNone(l) /\ (ClosesRaise(Val(l)) \/ VolumesRaise(Val(l))))
        closes == IF IsNone(l) \/ raised THEN << >> ELSE ClosesOf(Val(l))
        volumes == IF IsNone(l) \/ raised THEN << >> ELSE VolumesOf(Val(l))
        rsi == IF closes # << >> THEN calculate_rsi(closes, 14) ELSE None
        volume_divergence ==
            IF volumes # << >> THEN Some(detect_volume_divergence(volumes, 3)) ELSE None
    IN  [raised |-> raised,
         mtf_confirm |-> mtf.bullish_confirm,
         tf_status |-> mtf.results,
         rsi |-> rsi,
         volumes |-> volumes,
         volume_divergence |-> volume_divergence,
         momentum_health |-> calculate_momentum_health(rsi, volume_divergence)]

\* a sector looked up in a table fetched anew for the symbol, the fetch
\* failing
SectorOfOwnLookup(sector_lookup, coin_symbol) == "Unknown"

\* line 486: sector_lookup.get(coin_symbol.upper(), "Unknown")
SectorOf(sector_lookup, coin_symbol) == Get(sector_lookup, Upper(coin_symbol), "Unknown")

\* lines 423-513: the coin_data of a candidate, from what came before and
\* the metrics fetch_coingecko_metrics returned
CoinData(coin_symbol, pre, ind, cg_metrics, fg, ctx) ==
    LET breakout_score ==
            calculate_breakout_score(
                [rsi |-> ind.rsi,
                 volume_rising |-> IF ~IsNone(ind.volume_divergence)
                                   THEN ~Val(ind.volume_divergence) ELSE FALSE,
                 news_sentiment |-> "neutral",
                 spread_percent |-> pre.spread_percent,
                 btc_inflow_spike |-> FALSE,
                 orderbook_thin |-> pre.orderbook_thin,
                 momentum_health |-> ind.momentum_health,
                 cg_sentiment_percentage |->
                     MetricsGet(cg_metrics, "cg_sentiment_votes_up_percentage"),
                 cg_community_score |-> MetricsGet(cg_metrics, "cg_community_score"),
                 cg_developer_score |-> MetricsGet(cg_metrics, "cg_developer_score"),
                 cg_public_interest_score |->
                     MetricsGet(cg_metrics, "cg_public_interest_score")])
    IN  [symbol |-> coin_symbol,
         volatility_zone |-> pre.zone,
         bid_ask_spread_percent |->
             IF ~IsNone(pre.spread_percent) THEN Some(Round4(Val(pre.spread_percent)))
             ELSE None,
         multi_timeframe_confirmation |-> ind.mtf_confirm,
         rsi_1h |-> ind.rsi,
         volume_divergence_1h |-> ind.volume_divergence,
         momentum_health |-> ind.momentum_health,
         breakout_score |-> breakout_score,
         signal |-> "NEUTRAL",
         time_estimate_to_tp |-> estimate_time_to_tp(Some(breakout_score), Some(pre.zone)),
         sector |-> SectorOf(ctx.sector_lookup, coin_symbol),
         reddit_mentions |-> Get(ctx.reddit_mentions, coin_symbol, 0),
         news_sentiment |-> "neutral",
         fear_greed_context |-> fg,
         cg_slug |-> MetricsGet(cg_metrics, "cg_slug"),
         cg_sentiment_votes_up_percentage |->
             MetricsGet(cg_metrics, "cg_sentiment_votes_up_percentage"),
         cg_community_score |-> MetricsGet(cg_metrics, "cg_community_score"),
         cg_developer_score |-> MetricsGet(cg_metrics, "cg_developer_score"),
         cg_public_interest_score |-> MetricsGet(cg_metrics, "cg_public_interest_score"),
         btc_inflow_spike |-> FALSE,
         is_thin |-> pre.orderbook_thin]

----------------------------------------------------------------------------
(* main.py: update_data, run by the scheduler's thread *)

\* coin_symbol + "USDT"
UsdtOf(coin_symbol) ==
    CASE coin_symbol = "BTC" -> "BTCUSDT"
      [] coin_symbol = "ETH" -> "ETHUSDT"
      [] OTHER -> coin_symbol

\* the list comprehension of lines 307-313 over the tickers from position i
\* of their order on: raised is TRUE when float(lastPrice) raised
RECURSIVE PotentialCoins(_, _)
PotentialCoins(md, i) ==
    IF i > Len(TickerOrder) THEN [raised |-> FALSE, coins |-> << >>]
    ELSE LET rest == PotentialCoins(md, i + 1)
             key == TickerOrder[i]
         IN  IF key \notin DOMAIN md THEN rest
             ELSE IF ~EndsWithUSDT(md[key].symbol) THEN rest
             ELSE IF ~CanFloat(md[key].lastPrice)
                  THEN [raised |-> TRUE, coins |-> << >>]
             ELSE IF rest.raised THEN rest
             ELSE IF Float(md[key].lastPrice) > 0
                  THEN [raised |-> FALSE,
                        coins |-> << BaseOf(md[key].symbol) >> \o rest.coins]
             ELSE rest

\* a counter that counts twice
IncrementTwice(c, key) == Put(c, key, Get(c, key, 0) + 2)

\* Counter: c[key] += 1
Increment(c, key) == Put(c, key, Get(c, key, 0) + 1)

PublishSteps ==
    { "timestamp", "fear_greed", "processed_coins", "update_summary",
      "last_full_update_time" }

\* an abort that empties the snapshot on its way out
UD_NoTickersClearing ==
    /\ ud_pc = "idle"
    /\ resp = None
    /\ cycle_result' = "no_tickers"
    /\ sentiment_data' = EmptyDict
    /\ UNCHANGED << market_data, basic_coin_data,
                    last_full_update_time, last_basic_update_time, basic_pc, ud_pc,
                    bybit_market_data, orderbook_data, potential_coins, coin_index,
                    processed_coins_data, skipped_coins, fear_greed, context, ever_published, calls, resp >>
    /\ UNCHANGED << now, proxyVars, callerVars, pureVars >>

\* lines 301-304: fetch_market_data returned no ticker; the cycle ends
UD_NoTickers ==
    /\ ud_pc = "idle"
    /\ resp = None
    /\ cycle_result' = "no_tickers"
    /\ UNCHANGED << market_data, sentiment_data, basic_coin_data,
                    last_full_update_time, last_basic_update_time, basic_pc, ud_pc,
                    bybit_market_data, orderbook_data, potential_coins, coin_index, processed_coins_data,
                    skipped_coins, fear_greed, context, ever_published, calls, resp >>
    /\ UNCHANGED << now, proxyVars, callerVars, pureVars >>

\* lines 301-313 and 533-534: the tickers are stored, and float() raises
\* in the list comprehension; the except of line 533 ends the cycle
UD_Raise(tickers) ==
    /\ ud_pc = "idle"
    /\ resp = None
    /\ tickers # EmptyDict
    /\ PotentialCoins(tickers, 1).raised
    /\ market_data' = tickers
    /\ cycle_result' = "exception"
    /\ UNCHANGED << sentiment_data, basic_coin_data,
                    last_full_update_time, last_basic_update_time, basic_pc, ud_pc,
                    bybit_market_data, orderbook_data, potential_coins, coin_index, processed_coins_data,
                    skipped_coins, fear_greed, context, ever_published, calls, resp >>
    /\ UNCHANGED << now, proxyVars, callerVars, pureVars >>

\* lines 301-315 and 533-534: the tickers are stored, the candidates
\* listed, and fetch_fear_greed_index raises (a null value in the payload:
\* int(None) is a TypeError, which its handlers of lines 144 and 147 do not
\* catch); the except of line 533 ends the cycle
UD_RaiseFearGreed(tickers) ==
    /\ ud_pc = "idle"
    /\ resp = None
    /\ tickers # EmptyDict
    /\ ~PotentialCoins(tickers, 1).raised
    /\ market_data' = tickers
    /\ cycle_result' = "exception"
    /\ UNCHANGED << sentiment_data, basic_coin_data,
                    last_full_update_time, last_basic_update_time, basic_pc, ud_pc,
                    bybit_market_data, orderbook_data, potential_coins, coin_index, processed_coins_data,
                    skipped_coins, fear_greed, context, ever_published, calls, resp >>
    /\ UNCHANGED << now, proxyVars, callerVars, pureVars >>

\* lines 301-328: the tickers are stored, the candidates listed, the
\* context fetched; the loop is about to start
UD_Start(tickers, fg, ctx) ==
    /\ ud_pc = "idle"
    /\ resp = None
    /\ tickers # EmptyDict
    /\ ~PotentialCoins(tickers, 1).raised
    /\ bybit_market_data' = tickers
    /\ market_data' = tickers
    /\ potential_coins' = PotentialCoins(tickers, 1).coins
    /\ fear_greed' = fg
    /\ context' =
          [reddit_mentions |->
               fetch_reddit_mentions(PotentialCoins(tickers, 1).coins, ctx.titles),
           sector_lookup |-> SectorLookup(ctx.coingecko_markets),
           cryptopanic_news |-> ctx.cryptopanic_news]
    /\ processed_coins_data' = << >>
    /\ skipped_coins' = EmptyDict
    /\ coin_index' = 0
    /\ calls' = EmptyDict
    /\ cycle_result' = "running"
    /\ ud_pc' = "loop"
    /\ \E markets_ok \in BOOLEAN :
          /\ ~markets_ok => ctx.coingecko_markets = << >>
          /\ cg_wire' = Sent(cg_wire, 0, IF markets_ok THEN COINGECKO_API_DELAY ELSE 0)
    /\ UNCHANGED << sentiment_data, basic_coin_data, last_full_update_time,
                    last_basic_update_time, basic_pc, orderbook_data, resp,
                    ever_published >>
    /\ UNCHANGED << now, proxyVars, cg, cg_done, pureVars >>

\* a round that fetches the candles whatever the filters say
CallsMadeEager(pre, analysed, looked_up) ==
    pre.made \cup {"candles"} \cup (IF looked_up THEN {"metrics"} ELSE {})

\* the calls to the providers one candidate's round has made
CallsMade(pre, analysed, looked_up) ==
    pre.made \cup (IF analysed THEN {"candles"} ELSE {})
             \cup (IF looked_up THEN {"metrics"} ELSE {})

\* what is kept of a candidate's round: how it ended, its spread and zone,
\* the calls made, and the volumes of its 1h candles (None when they were
\* not fetched or not read)
Trace(coin_symbol, kind, pre, analysed, looked_up, volumes) ==
    Put(calls, coin_symbol,
        [kind |-> kind, spread_percent |-> pre.spread_percent, zone |-> pre.zone,
         made |-> CallsMade(pre, analysed, looked_up), volumes |-> volumes])

\* lines 331-399 for the candidate whose round is next, fetch_orderbook
\* answering book
Candidate == potential_coins[coin_index + 1]

Before(book) ==
    LET symbol_usdt == UsdtOf(Candidate)
    IN  BeforeAnalysis(IF symbol_usdt \in DOMAIN market_data
                       THEN Some(market_data[symbol_usdt]) ELSE None,
                       IF Candidate \in DOMAIN basic_coin_data
                       THEN Some(basic_coin_data[Candidate]) ELSE None,
                       book)

\* lines 330-399 and 516-518, one round of the loop for a candidate that
\* does not reach the analysis: it is counted under a skip reason, or
\* skipped without a count (lines 346 and 348)
UD_Skip(book) ==
    /\ ud_pc = "loop"
    /\ resp = None
    /\ coin_index < Len(potential_coins)
    /\ LET pre == Before(book)
       IN  /\ pre.kind # "pass"
           /\ orderbook_data' =
                 IF "orderbook" \in pre.made THEN book ELSE orderbook_data
           /\ skipped_coins' =
                 IF pre.kind = "continue" THEN skipped_coins
                 ELSE IF pre.kind = "raise"
                      THEN Increment(skipped_coins, "unexpected_error_full")
                 ELSE Increment(skipped_coins, pre.kind)
           /\ calls' = Trace(Candidate, pre.kind, pre, FALSE, FALSE, None)
    /\ coin_index' = coin_index + 1
    /\ UNCHANGED << market_data, sentiment_data, basic_coin_data,
                    last_full_update_time, last_basic_update_time, basic_pc, ud_pc,
                    bybit_market_data, potential_coins, processed_coins_data,
                    fear_greed, context, ever_published, cycle_result, resp >>
    /\ UNCHANGED << now, proxyVars, callerVars, pureVars >>

\* lines 330-518, one round of the loop for a candidate that passes the
\* filters, the providers answering book, candles, coins_list and response:
\* its candles are fetched, then its metrics, and its coin_data appended,
\* unless float() raises on a candle (lines 516-518)
UD_Analyse(book, candles, coins_list, response) ==
    /\ ud_pc = "loop"
    /\ resp = None
    /\ coin_index < Len(potential_coins)
    /\ LET pre == Before(book)
           ind == Indicators(pre.last_price, candles.c15, candles.c60,
                             candles.c240, candles.c1h)
           m == fetch_coingecko_metrics(Candidate, coins_list, response, now)
       IN  /\ pre.kind = "pass"
           /\ orderbook_data' = book
           /\ IF ind.raised
              THEN /\ skipped_coins' = Increment(skipped_coins, "unexpected_error_full")
                   /\ calls' = Trace(Candidate, "raise", pre, TRUE, FALSE, None)
                   /\ UNCHANGED << processed_coins_data, proxyVars, cg_wire >>
              ELSE /\ processed_coins_data' =
                         Append(processed_coins_data,
                                CoinData(Candidate, pre, ind, m.result, fear_greed, context))
                   /\ calls' = Trace(Candidate, "processed", pre, TRUE, TRUE, Some(ind.volumes))
                   /\ _COIN_LIST_CACHE' = m.list
                   /\ _LIST_CACHE_LAST_UPDATED' = m.updated
                   /\ _COIN_DETAIL_CACHE' = m.detail
                   /\ cg_wire' = WireAfterCall(cg_wire, m.list_requests, coins_list,
                                               m.detail_requests)
                   /\ UNCHANGED skipped_coins
    /\ coin_index' = coin_index + 1
    /\ UNCHANGED << market_data, sentiment_data, basic_coin_data,
                    last_full_update_time, last_basic_update_time, basic_pc, ud_pc,
                    bybit_market_data, potential_coins,
                    fear_greed, context, ever_published, cycle_result, resp >>
    /\ UNCHANGED << now, cg, cg_done, pureVars >>

\* line 521: sentiment_data.clear()
UD_Clear ==
    /\ ud_pc = "loop"
    /\ resp = None
    /\ coin_index = Len(potential_coins)
    /\ sentiment_data' = EmptyDict
    /\ ud_pc' = "timestamp"
    /\ UNCHANGED << market_data, basic_coin_data, last_full_update_time,
                    last_basic_update_time, basic_pc, bybit_market_data, orderbook_data, potential_coins,
                    coin_index, processed_coins_data, skipped_coins, fear_greed, context, ever_published,
                    cycle_result, calls, resp >>
    /\ UNCHANGED << now, proxyVars, callerVars, pureVars >>

\* the value each of lines 522-529 stores under its key
PublishedValue(key) ==
    CASE key = "timestamp" -> now
      [] key = "fear_greed" -> fear_greed
      [] key = "processed_coins" -> processed_coins_data
      [] key = "update_summary" ->
            [total_potential_coins |-> Len(potential_coins),
             successfully_processed_full |-> Len(processed_coins_data),
             skipped_counts |-> skipped_coins]

NextPublishStep(key) ==
    CASE key = "timestamp" -> "fear_greed"
      [] key = "fear_greed" -> "processed_coins"
      [] key = "processed_coins" -> "update_summary"
      [] key = "update_summary" -> "last_full_update_time"

\* lines 522-529, one statement at a time: sentiment_data[key] = ...
UD_Store ==
    /\ ud_pc \in PublishSteps \ {"last_full_update_time"}
    /\ resp = None
    /\ sentiment_data' = Put(sentiment_data, ud_pc, PublishedValue(ud_pc))
    /\ ud_pc' = NextPublishStep(ud_pc)
    /\ ever_published' =
          (ever_published \/ (ud_pc = "processed_coins" /\ processed_coins_data # << >>))
    /\ UNCHANGED << market_data, basic_coin_data, last_full_update_time,
                    last_basic_update_time, basic_pc, bybit_market_data, orderbook_data, potential_coins,
                    coin_index, processed_coins_data, skipped_coins, fear_greed, context,
                    cycle_result, calls, resp >>
    /\ UNCHANGED << now, proxyVars, callerVars, pureVars >>

\* line 530: last_full_update_time = datetime.now(); update_data returns,
\* and its locals are gone
UD_Finish ==
    /\ ud_pc = "last_full_update_time"
    /\ resp = None
    /\ last_full_update_time' = Some(now)
    /\ cycle_result' = "published"
    /\ ud_pc' = "idle"
    /\ bybit_market_data' = EmptyDict
    /\ orderbook_data' = None
    /\ potential_coins' = << >>
    /\ coin_index' = 0
    /\ processed_coins_data' = << >>
    /\ skipped_coins' = EmptyDict
    /\ fear_greed' = [score |-> 50, classification |-> "Neutral"]
    /\ context' = EmptyContext
    /\ calls' = EmptyDict
    /\ UNCHANGED << market_data, sentiment_data, basic_coin_data,
                    last_basic_update_time, basic_pc, resp, ever_published >>
    /\ UNCHANGED << now, proxyVars, callerVars, pureVars >>

----------------------------------------------------------------------------
(* main.py: fetch_and_process_basic_data, called once by __main__ *)

\* lines 186-189: fetch_market_data returned no ticker
Basic_NoTickers ==
    /\ basic_pc = "pending"
    /\ resp = None
    /\ basic_pc' = "done"
    /\ UNCHANGED << market_data, sentiment_data, basic_coin_data,
                    last_full_update_time, last_basic_update_time, ud_pc,
                    bybit_market_data, orderbook_data, potential_coins, coin_index,
                    processed_coins_data, skipped_coins, fear_greed, context, ever_published,
                    cycle_result, calls, resp >>
    /\ UNCHANGED << now, proxyVars, callerVars, pureVars >>

\* lines 190-289.  The tickers are stored.  When float() raises in the list
\* comprehension, the handler of line 264 itself raises (coin_symbol is not
\* bound at line 268) and the function is left.  Otherwise every candidate's
\* record raises at line 253 (spread_percent is no name of the function or
\* the module), which line 256 catches: no record is kept, and lines
\* 260-261 store the empty dict and the time.
Basic_Fetch(tickers) ==
    /\ basic_pc = "pending"
    /\ resp = None
    /\ tickers # EmptyDict
    /\ basic_pc' = "done"
    /\ market_data' = tickers
    /\ IF PotentialCoins(tickers, 1).raised
       THEN UNCHANGED << basic_coin_data, last_basic_update_time >>
       ELSE /\ basic_coin_data' = EmptyDict
            /\ last_basic_update_time' = Some(now)
    /\ UNCHANGED << sentiment_data, last_full_update_time, ud_pc,
                    bybit_market_data, orderbook_data, potential_coins, coin_index,
                    processed_coins_data, skipped_coins, fear_greed, context, ever_published,
                    cycle_result, calls, resp >>
    /\ UNCHANGED << now, proxyVars, callerVars, pureVars >>

----------------------------------------------------------------------------
(* main.py: the HTTP handlers *)

\* 90 * 60 seconds
HEALTH_STALE_AFTER == 3

\* not sentiment_data or not sentiment_data.get("processed_coins")
NotReady(sd) ==
    \/ sd = EmptyDict
    \/ "processed_coins" \notin DOMAIN sd
    \/ sd["processed_coins"] = << >>

\* the rules with the spread compared by >= where line 571 has >
ScalpQualifiesBelowCeiling(coin) ==
    /\ ~IsNone(coin.bid_ask_spread_percent)
    /\ ~(Val(coin.bid_ask_spread_percent) >= (Pct(3) \div 10))
    /\ coin.volatility_zone \in { "Very Low Volatility", "Low Volatility" }
    /\ coin.multi_timeframe_confirmation
    /\ ~(coin.breakout_score < 6)
    /\ ~IsNone(coin.rsi_1h)
    /\ 45 * RsiUnit <= Val(coin.rsi_1h) /\ Val(coin.rsi_1h) <= 65 * RsiUnit
    /\ coin.time_estimate_to_tp = "1-3 hours"
    /\ coin.momentum_health = "strong"

\* the rules of lines 570-586 on one coin of the snapshot
ScalpQualifies(coin) ==
    /\ ~IsNone(coin.bid_ask_spread_percent)
    /\ ~(Val(coin.bid_ask_spread_percent) > (Pct(3) \div 10))
    /\ coin.volatility_zone \in { "Very Low Volatility", "Low Volatility" }
    /\ coin.multi_timeframe_confirmation
    /\ ~(coin.breakout_score < 6)
    /\ ~IsNone(coin.rsi_1h)
    /\ 45 * RsiUnit <= Val(coin.rsi_1h) /\ Val(coin.rsi_1h) <= 65 * RsiUnit
    /\ coin.time_estimate_to_tp = "1-3 hours"
    /\ coin.momentum_health = "strong"

get_sentiment ==
    IF NotReady(sentiment_data)
    THEN [status |-> 404, body |-> [timestamp |-> last_full_update_time],
          read |-> Some(sentiment_data)]
    ELSE [status |-> 200, body |-> sentiment_data, read |-> Some(sentiment_data)]

get_market ==
    IF market_data = EmptyDict
    THEN [status |-> 503, body |-> EmptyDict, read |-> None]
    ELSE [status |-> 200,
          body |-> [timestamp |-> last_basic_update_time, data |-> market_data],
          read |-> None]

get_scalp_sentiment ==
    IF NotReady(sentiment_data)
    THEN [status |-> 503, body |-> EmptyDict, read |-> Some(sentiment_data)]
    ELSE LET original_coins == sentiment_data["processed_coins"]
             filtered_coins == SelectSeq(original_coins, ScalpQualifies)
         IN  [status |-> 200,
              body |-> [qualified_coins |-> filtered_coins,
                        total_checked_in_full_run |-> Len(original_coins),
                        total_qualified |-> Len(filtered_coins)],
              read |-> Some(sentiment_data)]

get_health ==
    LET full_update_ts == last_full_update_time
        status ==
            IF "processed_coins" \notin DOMAIN sentiment_data
               \/ sentiment_data["processed_coins"] = << >>
            THEN "initializing"
            ELSE IF ~IsNone(full_update_ts)
                    /\ (now - Val(full_update_ts)) > HEALTH_STALE_AFTER
                 THEN "stale_data"
            ELSE "ok"
    IN  [status |-> 200,
         body |-> [status |-> status,
                   last_basic_update |-> last_basic_update_time,
                   last_full_update |-> full_update_ts],
         read |-> Some(sentiment_data)]

\* Flask's answer for a path no rule matches
NotFound == [status |-> 404, body |-> "Not Found", read |-> None]

\* the URL rules.  Line 542 calls app.route("/sentiment") without applying
\* what it returns to get_sentiment, so no rule exists for that path.
Paths == { "/sentiment", "/market", "/scalp-sentiment", "/health" }

Dispatch(path) ==
    CASE path = "/market" -> get_market
      [] path = "/scalp-sentiment" -> get_scalp_sentiment
      [] path = "/health" -> get_health
      [] OTHER -> NotFound

\* a request is handled by one of the server's threads, whatever
\* update_data is doing; app.run (line 655) starts the server after the
\* basic fetch
HttpGet(path) ==
    /\ basic_pc = "done"
    /\ resp = None
    /\ resp' = Some([path |-> path] @@ Dispatch(path))
    /\ UNCHANGED << market_data, sentiment_data, basic_coin_data,
                    last_full_update_time, last_basic_update_time, basic_pc,
                    ud_pc, bybit_market_data, orderbook_data, potential_coins, coin_index,
                    processed_coins_data, skipped_coins, fear_greed, context, ever_published,
                    cycle_result, calls >>
    /\ UNCHANGED << now, proxyVars, callerVars, pureVars >>

\* the response is sent
HttpDone ==
    /\ resp # None
    /\ resp' = None
    /\ UNCHANGED << market_data, sentiment_data, basic_coin_data,
                    last_full_update_time, last_basic_update_time, basic_pc,
                    ud_pc, bybit_market_data, orderbook_data, potential_coins, coin_index,
                    processed_coins_data, skipped_coins, fear_greed, context, ever_published,
                    cycle_result, calls >>
    /\ UNCHANGED << now, proxyVars, callerVars, pureVars >>

----------------------------------------------------------------------------
(* Specifications *)

\* after the imports: the globals of main.py are empty, and the import of
\* coingecko_proxy has run _update_coin_list_cache(force_update=True)
\* (line 235), whose fetch answered coins_list
InitWith(coins_list, basic) ==
    /\ market_data = EmptyDict
    /\ sentiment_data = EmptyDict
    /\ basic_coin_data = EmptyDict
    /\ last_full_update_time = None
    /\ last_basic_update_time = None
    /\ basic_pc = basic
    /\ now = 0
    /\ ud_pc = "idle"
    /\ bybit_market_data = EmptyDict
    /\ orderbook_data = None
    /\ potential_coins = << >>
    /\ coin_index = 0
    /\ processed_coins_data = << >>
    /\ skipped_coins = EmptyDict
    /\ fear_greed = [score |-> 50, classification |-> "Neutral"]
    /\ context = EmptyContext
    /\ cycle_result = "none"
    /\ calls = EmptyDict
    /\ resp = None
    /\ ever_published = FALSE
    /\ _COIN_LIST_CACHE =
          IF coins_list = None THEN EmptyDict ELSE BuildListCache(coins_list, EmptyDict)
    /\ _COIN_DETAIL_CACHE = EmptyDict
    /\ _LIST_CACHE_LAST_UPDATED = 0
    /\ cg = [th \in Threads |-> IdleCaller]
    /\ cg_done = << >>
    /\ cg_wire = [slept |-> COINGECKO_DELAY, shortest |-> None]

\* no function is called on its own
NoCall == args = None /\ returned = None

Init == NoCall /\ \E coins_list \in CoinListResponses : InitWith(coins_list, "pending")

\* coingecko_proxy imported on its own: no basic fetch is to come
InitProxy == NoCall /\ \E coins_list \in CoinListResponses : InitWith(coins_list, "done")

\* The server: update_data on its schedule, the one basic fetch, the
\* handlers, the clock.  The providers' answers of this specification:
ServerTickerMaps ==
    { EmptyDict,
      [s \in {"ETHUSDT"} |-> Ticker("ETHUSDT", "1000", "1020", "1000")],
      [s \in {"BTCUSDT", "ETHUSDT"} |->
          IF s = "BTCUSDT" THEN Ticker("BTCUSDT", "", "1020", "1000")
          ELSE Ticker("ETHUSDT", "1000", "1020", "1000")] }

ServerOrderBooks == { Documented(Tight), Nested(Tight) }

ServerCandleAnswers ==
    { Candles(NestedCandles(Flat20), NestedCandles(Flat20),
              NestedCandles(Flat20), NestedCandles(Flat20)) }

ServerFearGreed == { [score |-> 50, classification |-> "Neutral"] }

ServerContextAnswers == { NoContext }

ServerDetailResponses == { [kind |-> "transport", data |-> EmptyDict] }

Next ==
    \/ UD_NoTickers
    \/ \E tickers \in ServerTickerMaps : UD_Raise(tickers)
    \/ \E tickers \in ServerTickerMaps : UD_RaiseFearGreed(tickers)
    \/ \E tickers \in ServerTickerMaps, fg \in ServerFearGreed,
          ctx \in ServerContextAnswers : UD_Start(tickers, fg, ctx)
    \/ \E book \in ServerOrderBooks : UD_Skip(book)
    \/ \E book \in ServerOrderBooks, candles \in ServerCandleAnswers,
          coins_list \in CoinListResponses, response \in ServerDetailResponses :
          UD_Analyse(book, candles, coins_list, response)
    \/ UD_Clear
    \/ UD_Store
    \/ UD_Finish
    \/ Basic_NoTickers
    \/ \E tickers \in ServerTickerMaps : Basic_Fetch(tickers)
    \/ \E path \in Paths : HttpGet(path)
    \/ HttpDone
    \/ Tick

Spec == Init /\ [][Next]_vars

\* The first call of update_data after the start, with everything the
\* providers may answer, no time passing and no request coming in
CycleDetailResponses ==
    { [kind |-> "ok", data |-> [sentiment_votes_up_percentage |-> 80,
                                community_score |-> 70, developer_score |-> 70,
                                public_interest_score |-> 40]],
      [kind |-> "http429", data |-> EmptyDict] }

NextCycle ==
    \/ cycle_result = "none" /\ UD_NoTickers
    \/ cycle_result = "none" /\ \E tickers \in TickerMaps : UD_Raise(tickers)
    \/ cycle_result = "none" /\ \E tickers \in TickerMaps : UD_RaiseFearGreed(tickers)
    \/ cycle_result = "none" /\ \E tickers \in TickerMaps, fg \in FearGreedResults,
                                    ctx \in ContextAnswers : UD_Start(tickers, fg, ctx)
    \/ \E book \in OrderBooks : UD_Skip(book)
    \/ \E book \in OrderBooks, candles \in CandleAnswers,
          coins_list \in CoinListResponses, response \in CycleDetailResponses :
          UD_Analyse(book, candles, coins_list, response)
    \/ UD_Clear
    \/ UD_Store
    \/ UD_Finish

SpecCycle == Init /\ [][NextCycle]_vars

\* fetch_coingecko_metrics called by one thread, call after call
NextProxy ==
    \/ \E symbol \in CallerSymbols, coins_list \in CoinListResponses :
          CG_Enter("t1", symbol, coins_list)
    \/ CG_Send("t1")
    \/ \E response \in DetailResponses : CG_Response("t1", response)
    \/ Tick

SpecProxy == InitProxy /\ [][NextProxy]_vars

\* fetch_coingecko_metrics called by two threads
NextThreads ==
    \/ \E th \in Threads, symbol \in CallerSymbols, coins_list \in CoinListResponses :
          CG_Enter(th, symbol, coins_list)
    \/ \E th \in Threads : CG_Send(th)
    \/ \E th \in Threads, response \in DetailResponses : CG_Response(th, response)

SpecThreads == InitProxy /\ [][NextThreads]_vars

\* fetch_coingecko_metrics called by one thread, before and after the coin
\* list has grown older than LIST_CACHE_REFRESH_INTERVAL

\* more than LIST_CACHE_REFRESH_INTERVAL passes with no call
SleepPastRefresh ==
    /\ now <= MaxClock
    /\ cg["t1"].pc = "idle"
    /\ now' = now + LIST_CACHE_REFRESH_INTERVAL + 1
    /\ cg_wire' = [cg_wire EXCEPT !.slept = COINGECKO_DELAY]
    /\ UNCHANGED << pureVars, mainVars, proxyVars, cg, cg_done >>

ListDetailResponses ==
    { [kind |-> "ok", data |-> [sentiment_votes_up_percentage |-> 50]],
      [kind |-> "transport", data |-> EmptyDict] }

NextList ==
    \/ \E symbol \in CallerSymbols, coins_list \in CoinListResponses :
          CG_Enter("t1", symbol, coins_list)
    \/ CG_Send("t1")
    \/ \E response \in ListDetailResponses : CG_Response("t1", response)
    \/ Tick
    \/ SleepPastRefresh

SpecList == InitProxy /\ [][NextList]_vars

----------------------------------------------------------------------------
(* The first cycle of update_data with GET /scalp-sentiment coming in *)

\* order books with a spread of 0.3 and of 0.4 percent of a price of 1000
AtScalpCeiling == Book(<< "1000" >>, << "1003" >>)

AboveScalpCeiling == Book(<< "997" >>, << "1001" >>)

ServeTickerMaps ==
    { [s \in {"BTCUSDT", "ETHUSDT"} |-> Ticker(s, "1000", "1020", "1000")] }

ServeOrderBooks == { Nested(Tight), Nested(AtScalpCeiling), Nested(AboveScalpCeiling) }

ServeCandleAnswers ==
    { Candles(NestedCandles(Flat20), NestedCandles(Flat20),
              NestedCandles(Flat20), NestedCandles(Flat20)),
      Candles(NestedCandles(Flat20), NestedCandles(Falling20),
              NestedCandles(Flat20), NestedCandles(Falling20)) }

\* detail answers that put a coin's score at 5, 6, 7 and 9: no metrics,
\* one, two and all four of them above their thresholds
ServeDetailResponses ==
    CycleDetailResponses
        \cup { [kind |-> "ok", data |-> [sentiment_votes_up_percentage |-> 80]],
               [kind |-> "ok", data |-> [sentiment_votes_up_percentage |-> 80,
                                         community_score |-> 70]] }

NextServe ==
    \/ Basic_NoTickers
    \/ cycle_result = "none" /\ \E tickers \in ServeTickerMaps, fg \in ServerFearGreed,
                                    ctx \in ServerContextAnswers : UD_Start(tickers, fg, ctx)
    \/ \E book \in ServeOrderBooks, candles \in ServeCandleAnswers,
          coins_list \in CoinListResponses, response \in ServeDetailResponses :
          UD_Analyse(book, candles, coins_list, response)
    \/ UD_Clear
    \/ UD_Store
    \/ UD_Finish
    \/ HttpGet("/scalp-sentiment")
    \/ HttpDone

SpecServe == Init /\ [][NextServe]_vars

----------------------------------------------------------------------------
(* The first cycle of update_data while __main__ runs the basic fetch *)

\* The scheduler is started when main.py is imported (lines 537-539) and
\* __main__ calls fetch_and_process_basic_data after that (line 642); no
\* lock orders line 190 of the one and lines 305-332 of the other.
NextOverlap ==
    \/ cycle_result = "none" /\ UD_NoTickers
    \/ cycle_result = "none" /\ \E tickers \in TickerMaps : UD_Raise(tickers)
    \/ cycle_result = "none" /\ \E tickers \in TickerMaps : UD_RaiseFearGreed(tickers)
    \/ cycle_result = "none" /\ \E tickers \in TickerMaps, fg \in FearGreedResults,
                                    ctx \in ServerContextAnswers : UD_Start(tickers, fg, ctx)
    \/ \E book \in ServerOrderBooks : UD_Skip(book)
    \/ \E book \in ServerOrderBooks, candles \in ServerCandleAnswers,
          coins_list \in CoinListResponses, response \in ServerDetailResponses :
          UD_Analyse(book, candles, coins_list, response)
    \/ UD_Clear
    \/ UD_Store
    \/ UD_Finish
    \/ Basic_NoTickers
    \/ \E tickers \in TickerMaps : Basic_Fetch(tickers)

SpecOverlap == Init /\ [][NextOverlap]_vars

----------------------------------------------------------------------------
(* The provider fetch functions called on their own: the HTTP attempts     *)
(* each makes and what it hands back                                       *)

\* Retry(total=3, ...) of bybit_api.py
RetryTotal == 3

\* status_forcelist of bybit_api.py, among the answers of the model
StatusForcelist == { "http429", "http500" }

\* what the server does with one attempt: a 200 with the payload the code
\* expects, a 200 whose JSON has another shape (a null where the code
\* expects an object or a number), no answer at all, or an error status
Answers == { "ok", "wrong_shape", "transport", "http429", "http500", "http501", "http404" }

\* the answers to the successive attempts of one call
Scripts == [1 .. (RetryTotal + 1) -> Answers]

\* session.get through the HTTPAdapter with max_retries=retry_strategy
\* (bybit_api.py 7-16 and 24): attempt i, with retries_left retries to go.
\* A connection error or a status of the forcelist is retried; when no
\* retry is left the adapter raises (a RequestException).
RECURSIVE SessionGet(_, _, _)
SessionGet(script, i, retries_left) ==
    IF script[i] = "transport" \/ script[i] \in StatusForcelist
    THEN IF retries_left > 0 THEN SessionGet(script, i + 1, retries_left - 1)
         ELSE [attempts |-> i, answer |-> "exhausted"]
    ELSE [attempts |-> i, answer |-> script[i]]

\* requests.get with no adapter configured: one attempt
PlainGet(script) == [attempts |-> 1, answer |-> script[1]]

BybitFetches == { "fetch_market_data", "fetch_orderbook", "fetch_candles" }

PlainFetches ==
    { "fetch_fear_greed_index", "fetch_coingecko_market_data", "_fetch_all_coins_list",
      "fetch_coingecko_metrics", "fetch_cryptopanic_news" }

\* what a fetch function does with the answer its request ended with:
\* "data", "unavailable" (None, {}, [] or (50, "Neutral")) or "raise".
\* fetch_market_data calls item.get on each entry of the list outside any
\* try (bybit_api.py 57-59); fetch_fear_greed_index calls int() on the
\* value and catches ValueError and KeyError, not the TypeError of
\* int(None) (main.py 140 and 147).  fetch_orderbook finds no 'b' in a
\* payload of another shape; fetch_candles and the CoinGecko list and
\* markets fetches hand the JSON on as it is; the CoinGecko detail and the
\* CryptoPanic fetch catch every Exception.
Outcome(fn, answer) ==
    IF answer = "ok" THEN "data"
    ELSE IF answer = "wrong_shape"
         THEN CASE fn \in { "fetch_market_data", "fetch_fear_greed_index" } -> "raise"
                [] fn \in { "fetch_candles", "fetch_coingecko_market_data",
                            "_fetch_all_coins_list" } -> "data"
                [] OTHER -> "unavailable"
    ELSE "unavailable"

\* a fetch function called with the server answering by script
ProviderFetch(fn, script) ==
    LET got == IF fn \in BybitFetches THEN SessionGet(script, 1, RetryTotal)
               ELSE PlainGet(script)
    IN  [attempts |-> got.attempts, outcome |-> Outcome(fn, got.answer)]

InitFetch ==
    /\ InitWith(None, "done")
    /\ args \in { Some([fn |-> fn, script |-> script]) :
                     fn \in BybitFetches \cup PlainFetches, script \in Scripts }
    /\ returned = None

\* the call returns, or raises
Call_ProviderFetch ==
    /\ args # None
    /\ Val(args).fn \in BybitFetches \cup PlainFetches
    /\ returned = None
    /\ returned' = Some(ProviderFetch(Val(args).fn, Val(args).script))
    /\ UNCHANGED << mainVars, now, proxyVars, callerVars, args >>

NextFetch == Call_ProviderFetch

SpecFetch == InitFetch /\ [][NextFetch]_vars

----------------------------------------------------------------------------
(* calculate_breakout_score called on its own *)

\* an RSI below, at and above each bound the function compares it with
ScoreRsis ==
    { None, Some(40 * RsiUnit - 1), Some(40 * RsiUnit), Some(70 * RsiUnit - 1),
      Some(70 * RsiUnit), Some(75 * RsiUnit - 1), Some(75 * RsiUnit) }

\* a value absent, below and at threshold t
Around(t) == { None, Some(t - 1), Some(t) }

ScoreInputs ==
    [ rsi : ScoreRsis,
      volume_rising : BOOLEAN,
      spread_percent : { None, Some(Pct(1) \div 2 - 10), Some(Pct(1) \div 2) },
      orderbook_thin : BOOLEAN,
      momentum_health : { "strong", "oversold but healthy", "weak", "neutral" },
      news_sentiment : { "positive", "negative", "neutral" },
      btc_inflow_spike : BOOLEAN,
      cg_sentiment_percentage : Around(CG_SENTIMENT_THRESHOLD),
      cg_community_score : Around(CG_COMMUNITY_SCORE_THRESHOLD),
      cg_developer_score : { None, Some(CG_DEVELOPER_SCORE_THRESHOLD) },
      cg_public_interest_score : { None, Some(CG_PUBLIC_INTEREST_SCORE_THRESHOLD) } ]

InitScore ==
    /\ InitWith(None, "done")
    /\ args \in { Some([fn |-> "calculate_breakout_score", kw |-> sig]) :
                     sig \in ScoreInputs }
    /\ returned = None

\* the call returns
Call_calculate_breakout_score ==
    /\ args # None
    /\ Val(args).fn = "calculate_breakout_score"
    /\ returned = None
    /\ returned' = Some(calculate_breakout_score(Val(args).kw))
    /\ UNCHANGED << mainVars, now, proxyVars, callerVars, args >>

NextScore == Call_calculate_breakout_score

SpecScore == InitScore /\ [][NextScore]_vars

----------------------------------------------------------------------------
(* The classifiers and the indicators called on their own *)

\* the longest series a call is given
MaxSeries == 4

\* a percentage below, at and above each bound determine_volatility_zone
\* compares it with, and below zero
VolatilityInputs ==
    { None, Some(0 - Pct(1)), Some(0 - 1), Some(0), Some(1), Some(Pct(100)) }
        \cup UNION { { Some(Pct(b) - 1), Some(Pct(b)), Some(Pct(b) + 1) } :
                      b \in { 3, 7, 12, 18 } }

Zones ==
    { "Very Low Volatility", "Low Volatility", "Medium Volatility",
      "High Volatility", "Very High Volatility", "Unknown Volatility" }

\* an RSI below, at and above each bound calculate_momentum_health
\* compares it with
HealthRsis ==
    { None, Some(0), Some(20 * RsiUnit), Some(90 * RsiUnit), Some(100 * RsiUnit) }
        \cup UNION { { Some(b * RsiUnit - 1), Some(b * RsiUnit), Some(b * RsiUnit + 1) } :
                      b \in { 30, 40, 65, 75 } }

\* the series: None, or a list of up to MaxSeries of these numbers
SeriesValues == { 1, 2, 4 }

Series == { None } \cup { Some(s) : s \in UNION { [1 .. n -> SeriesValues] : n \in 0 .. MaxSeries } }

\* what fetch_candles answers analyze_timeframes for one timeframe: None
\* when the request failed, else the candles as Bybit sends them or with
\* the data under 'result' too
TimeframeAnswers ==
    { None, DocumentedCandles(Flat20), NestedCandles(Flat20), NestedCandles(Short2),
      NestedCandles(Malformed) }

CallsOf(fn, kws) == { Some([fn |-> fn, kw |-> kw]) : kw \in kws }

PureCalls ==
    CallsOf("determine_volatility_zone", [volatility : VolatilityInputs])
        \cup CallsOf("estimate_time_to_tp",
                     [score : { None } \cup { Some(n) : n \in (0 - 5) .. 10 },
                      volatility_zone : { None } \cup { Some(z) : z \in Zones }])
        \cup CallsOf("calculate_momentum_health",
                     [rsi : HealthRsis, volume_divergence : { None, Some(TRUE), Some(FALSE) }])
        \cup CallsOf("calculate_ema", [values : Series, period : { 1, 2, 3 }])
        \cup CallsOf("calculate_rsi", [closes : Series, period : { 1, 2 }])
        \cup CallsOf("analyze_timeframes",
                     [last_price : { 990, 1000 },
                      c15 : TimeframeAnswers, c60 : TimeframeAnswers,
                      c240 : TimeframeAnswers])

InitPure ==
    /\ InitWith(None, "done")
    /\ args \in PureCalls
    /\ returned = None

\* a list argument: None and [] both have no element
ListOf(arg) == IF IsNone(arg) THEN << >> ELSE Val(arg)

Calling(fn) == args # None /\ Val(args).fn = fn /\ returned = None

Call_determine_volatility_zone ==
    /\ Calling("determine_volatility_zone")
    /\ returned' = Some(determine_volatility_zone(Val(args).kw.volatility))
    /\ UNCHANGED << mainVars, now, proxyVars, callerVars, args >>

Call_estimate_time_to_tp ==
    /\ Calling("estimate_time_to_tp")
    /\ returned' = Some(estimate_time_to_tp(Val(args).kw.score,
                                            Val(args).kw.volatility_zone))
    /\ UNCHANGED << mainVars, now, proxyVars, callerVars, args >>

Call_calculate_momentum_health ==
    /\ Calling("calculate_momentum_health")
    /\ returned' = Some(calculate_momentum_health(Val(args).kw.rsi,
                                                  Val(args).kw.volume_divergence))
    /\ UNCHANGED << mainVars, now, proxyVars, callerVars, args >>

Call_calculate_ema ==
    /\ Calling("calculate_ema")
    /\ returned' = Some(calculate_ema(ListOf(Val(args).kw.values), Val(args).kw.period))
    /\ UNCHANGED << mainVars, now, proxyVars, callerVars, args >>

Call_calculate_rsi ==
    /\ Calling("calculate_rsi")
    /\ returned' = Some(calculate_rsi(ListOf(Val(args).kw.closes), Val(args).kw.period))
    /\ UNCHANGED << mainVars, now, proxyVars, callerVars, args >>

Call_analyze_timeframes ==
    /\ Calling("analyze_timeframes")
    /\ returned' = Some(analyze_timeframes(Val(args).kw.last_price, Val(args).kw.c15,
                                           Val(args).kw.c60, Val(args).kw.c240))
    /\ UNCHANGED << mainVars, now, proxyVars, callerVars, args >>

NextPure ==
    \/ Call_determine_volatility_zone
    \/ Call_estimate_time_to_tp
    \/ Call_calculate_momentum_health
    \/ Call_calculate_ema
    \/ Call_calculate_rsi
    \/ Call_analyze_timeframes

SpecPure == InitPure /\ [][NextPure]_vars

----------------------------------------------------------------------------
(* Properties *)

SnapshotKeys == { "timestamp", "fear_greed", "processed_coins", "update_summary" }

\* the symbols of a list of coin_data
SymbolsOf(coins) == { coins[i].symbol : i \in 1 .. Len(coins) }

\* the skip counter a round of kind k increments ("" for none)
CounterOf(k) ==
    CASE k = "raise" -> "unexpected_error_full"
      [] k \in { "continue", "processed" } -> ""
      [] OTHER -> k

\* how many candidates of the running cycle were counted under key
Counted(key) == Cardinality({ c \in DOMAIN calls : CounterOf(calls[c].kind) = key })

SkipReasons ==
    { "market_data_missing", "missing_spread_full", "high_spread_full",
      "wrong_volatility_full", "unexpected_error_full" }

\* the lines 522-529 have all run: the snapshot of the running cycle is in
\* sentiment_data
Stored == ud_pc = "last_full_update_time"

\* C1: what a handler reads from sentiment_data is a whole snapshot, with
\* its four keys, at any time, a publish in progress included; before the
\* first publish it is the empty dict the program starts with.
C1_ReadersSeeWholeSnapshots ==
    (resp # None /\ Val(resp).read # None)
        => \/ DOMAIN Val(Val(resp).read) = SnapshotKeys
           \/ (Val(Val(resp).read) = EmptyDict /\ last_full_update_time = None)

\* the step in which update_data gives up for want of tickers
AbortStep == ud_pc = "idle" /\ cycle_result # "no_tickers" /\ cycle_result' = "no_tickers"

\* C2: a cycle that aborts because fetch_market_data returned no ticker
\* leaves sentiment_data, market_data and last_full_update_time as they
\* were, and get_health answers after it what it answered before it.
C2_AbortLeavesStateAlone ==
    [][AbortStep =>
          /\ UNCHANGED << sentiment_data, market_data, last_full_update_time >>
          /\ get_health' = get_health]_vars

\* C2 witness: an abort after a published cycle, /health then reporting
\* that cycle's time
C2_AbortAfterPublish ==
    /\ cycle_result = "no_tickers"
    /\ last_full_update_time # None
    /\ DOMAIN sentiment_data = SnapshotKeys
    /\ now > Val(last_full_update_time)
    /\ resp # None
    /\ Val(resp).path = "/health"
    /\ Val(resp).body.last_full_update = last_full_update_time

\* the candidates of the running cycle by the kind of their round
Raised == { c \in DOMAIN calls : calls[c].kind = "raise" }

Filtered ==
    { c \in DOMAIN calls :
         calls[c].kind \in { "missing_spread_full", "high_spread_full",
                             "wrong_volatility_full" } }

\* C3: when the processing of a candidate raises inside the loop, the
\* cycle goes on: the candidate is not among the processed coins, it adds
\* one to the counter "unexpected_error_full" and to no other, the
\* candidates after it have their round, and the snapshot stored at the end
\* holds the processed coins and the counters of the cycle.
C3_RaiseSkipsOneCandidate ==
    Raised # {} =>
        /\ cycle_result = "running"
        /\ ud_pc # "idle"
        /\ Raised \cap SymbolsOf(processed_coins_data) = {}
        /\ \A key \in SkipReasons : Get(skipped_coins, key, 0) = Counted(key)
        /\ DOMAIN skipped_coins \subseteq SkipReasons
        /\ DOMAIN calls = { potential_coins[i] : i \in 1 .. coin_index }
        /\ (ud_pc # "loop" => coin_index = Len(potential_coins))
        /\ (Stored =>
               /\ sentiment_data["processed_coins"] = processed_coins_data
               /\ sentiment_data["update_summary"].skipped_counts = skipped_coins)

\* C3 witness: BTC's round raised, ETH's round after it processed ETH, and
\* the snapshot is stored with one coin and one error counted
C3_RaiseThenProcessedAndStored ==
    /\ Stored
    /\ potential_coins = << "BTC", "ETH" >>
    /\ calls["BTC"].kind = "raise"
    /\ calls["ETH"].kind = "processed"
    /\ SymbolsOf(sentiment_data["processed_coins"]) = { "ETH" }
    /\ sentiment_data["update_summary"].skipped_counts =
          [k \in { "unexpected_error_full" } |-> 1]

\* the USDT tickers of a map whose lastPrice float() does not take
Unparseable(md) ==
    { k \in DOMAIN md : EndsWithUSDT(md[k].symbol) /\ ~CanFloat(md[k].lastPrice) }

\* C4: a cycle whose ticker map holds exactly one USDT ticker with a
\* lastPrice that is no number does not end by the exception handler of
\* line 533: it goes through its candidates and publishes.
C4_OneBadTickerDoesNotEndTheCycle ==
    ~(cycle_result = "exception" /\ Cardinality(Unparseable(market_data)) = 1)

\* C5: every coin of the snapshot's processed_coins has a spread, of at
\* most 1.5 percent, and a zone of the allow-list; and the filters let no
\* other candidate pass, whatever its spread and zone.
C5_PublishedCoinsPassedTheFilters ==
    /\ "processed_coins" \in DOMAIN sentiment_data =>
          \A i \in 1 .. Len(sentiment_data["processed_coins"]) :
             LET coin == sentiment_data["processed_coins"][i]
             IN  /\ ~IsNone(coin.bid_ask_spread_percent)
                 /\ 2 * Val(coin.bid_ask_spread_percent) <= Pct(3)
                 /\ coin.volatility_zone \in
                       { "Very Low Volatility", "Low Volatility", "Medium Volatility" }
    /\ \A c \in DOMAIN calls :
          calls[c].kind = "processed" =>
             /\ ~IsNone(calls[c].spread_percent)
             /\ 2 * Val(calls[c].spread_percent) <= Pct(3)
             /\ calls[c].zone \in
                   { "Very Low Volatility", "Low Volatility", "Medium Volatility" }

\* C5 witness: a published snapshot with a coin, of a cycle in which the
\* zone filter dropped another candidate
C5_PublishedWithOneDropped ==
    /\ ud_pc = "idle"
    /\ cycle_result = "published"
    /\ Len(sentiment_data["processed_coins"]) = 1
    /\ "wrong_volatility_full" \in
          DOMAIN sentiment_data["update_summary"].skipped_counts

\* C6: for a candidate the spread filter or the zone filter dropped, the
\* cycle has fetched the order book and nothing else: no candles, no
\* symbol metrics.
C6_NoFetchAfterTheFilters ==
    \A c \in Filtered : calls[c].made = { "orderbook" }

\* C6 witness: the spread filter dropped BTC, for which nothing but the
\* order book was fetched, and ETH went on to its candles and its metrics
C6_DroppedBesideAnalysed ==
    /\ potential_coins = << "BTC", "ETH" >>
    /\ coin_index = 2
    /\ calls["BTC"].kind = "high_spread_full"
    /\ calls["BTC"].made = { "orderbook" }
    /\ calls["ETH"].made = { "orderbook", "candles", "metrics" }

\* the candidate of the last round, when that round fetched an order book
\* with no ask and some bid
LastBookHasNoAsk ==
    /\ ud_pc # "idle"
    /\ coin_index > 0
    /\ "orderbook" \in calls[potential_coins[coin_index]].made
    /\ orderbook_data # None
    /\ Val(orderbook_data).a = << >>
    /\ Val(orderbook_data).b # << >>

\* what C7 says of the counter named key
NoAskIsCountedUnder(key) ==
    /\ LastBookHasNoAsk =>
          LET c == potential_coins[coin_index]
          IN  /\ IsNone(calls[c].spread_percent)
              /\ c \notin SymbolsOf(processed_coins_data)
              /\ CounterOf(calls[c].kind) = key
    /\ ud_pc # "idle" => Get(skipped_coins, key, 0) = Counted(key)
    /\ Stored => sentiment_data["update_summary"].skipped_counts = skipped_coins

\* C7 (amended): a candidate whose order book has no ask and some bid has
\* no spread, is not among the processed coins, and adds exactly one to the
\* counter "missing_spread_full" of the update summary.
C7_NoAskCountedAsMissingSpreadFull == NoAskIsCountedUnder("missing_spread_full")

\* C7 as stated: the counter is called "missing_spread"
C7_NoAskCountedAsMissingSpread == NoAskIsCountedUnder("missing_spread")

\* C7 witness: the snapshot is stored after a last round whose order book
\* had no ask, with that candidate counted
C7_NoAskStored ==
    /\ Stored
    /\ LastBookHasNoAsk
    /\ sentiment_data["processed_coins"] = << >>
    /\ sentiment_data["update_summary"].skipped_counts =
          [k \in { "missing_spread_full" } |-> 1]

\* the last two calls of fetch_coingecko_metrics resolved the same slug and
\* started less than COIN_DETAIL_CACHE_DURATION apart
TwoCallsWithinDuration ==
    /\ Len(cg_done) = 2
    /\ cg_done[1].coin_id # None
    /\ cg_done[1].coin_id = cg_done[2].coin_id
    /\ cg_done[1].t - cg_done[2].t < COIN_DETAIL_CACHE_DURATION

\* the detail requests the last two calls sent
RequestsOfLastTwo ==
    Cardinality({ i \in 1 .. 2 : cg_done[i].outcome \in { "ok", "failed" } })

\* C8 (amended): of two consecutive calls for one slug less than
\* COIN_DETAIL_CACHE_DURATION apart, the first of which sent a detail
\* request that succeeded, the second is answered from the cache: it
\* returns what the first returned and sends no request.
C8_SecondCallServedFromCache ==
    (TwoCallsWithinDuration /\ cg_done[2].outcome = "ok")
        => /\ cg_done[1].outcome = "hit"
           /\ cg_done[1].result = cg_done[2].result
           /\ RequestsOfLastTwo = 1

\* C8 as stated: the same, whatever the first call's request came to
C8_SecondCallServedWhateverTheFirst ==
    TwoCallsWithinDuration
        => /\ cg_done[1].result = cg_done[2].result
           /\ RequestsOfLastTwo <= 1

\* C8 witness: a call that stored its answer, and a later call within the
\* duration that got it from the cache
C8_StoredThenHit ==
    /\ TwoCallsWithinDuration
    /\ cg_done[2].outcome = "ok"
    /\ cg_done[1].outcome = "hit"
    /\ cg_done[1].t > cg_done[2].t
    /\ cg_done[1].result # EmptyDict

\* C9: a call whose detail request failed while the cache holds an entry
\* for the slug (a stale one, or the call would not have sent a request)
\* returns the data of that entry.
C9_FailedRefreshReturnsStaleEntry ==
    (/\ cg_done # << >>
     /\ cg_done[1].outcome = "failed"
     /\ Val(cg_done[1].coin_id) \in DOMAIN _COIN_DETAIL_CACHE)
        => cg_done[1].result = _COIN_DETAIL_CACHE[Val(cg_done[1].coin_id)][2]

\* C10: no two threads are at the same time waiting for the answer to a
\* detail request for one slug.
C10_OneRequestInFlightPerSlug ==
    \A a \in Threads, b \in Threads :
       (a # b /\ cg[a].pc = "request" /\ cg[b].pc = "request")
           => cg[a].coin_id # cg[b].coin_id

\* the signals of the rule table
ScoreSignals ==
    { "strong", "oversold", "rsi_healthy", "rsi_overbought", "volume_rising",
      "tight_spread", "positive_news", "negative_news", "cg_community",
      "cg_developer", "cg_public_interest", "cg_sentiment", "thin", "inflow" }

\* the delta the table gives a signal
TableDelta(s) ==
    CASE s = "strong" -> 2
      [] s = "inflow" -> 0 - 2
      [] s \in { "rsi_overbought", "negative_news", "thin" } -> 0 - 1
      [] OTHER -> 1

\* whether signal s holds of the keyword arguments kw
SignalHolds(s, kw) ==
    CASE s = "strong" -> kw.momentum_health = "strong"
      [] s = "oversold" -> kw.momentum_health = "oversold but healthy"
      [] s = "rsi_healthy" ->
            kw.rsi # None /\ 40 * RsiUnit <= Val(kw.rsi) /\ Val(kw.rsi) < 70 * RsiUnit
      [] s = "rsi_overbought" -> kw.rsi # None /\ Val(kw.rsi) >= 75 * RsiUnit
      [] s = "volume_rising" -> kw.volume_rising
      [] s = "tight_spread" ->
            kw.spread_percent # None /\ 2 * Val(kw.spread_percent) < Pct(1)
      [] s = "positive_news" -> kw.news_sentiment = "positive"
      [] s = "negative_news" -> kw.news_sentiment = "negative"
      [] s = "cg_community" ->
            kw.cg_community_score # None /\ Val(kw.cg_community_score) >= 60
      [] s = "cg_developer" ->
            kw.cg_developer_score # None /\ Val(kw.cg_developer_score) >= 65
      [] s = "cg_public_interest" ->
            kw.cg_public_interest_score # None
               /\ Val(kw.cg_public_interest_score) >= 30
      [] s = "cg_sentiment" ->
            kw.cg_sentiment_percentage # None
               /\ Val(kw.cg_sentiment_percentage) >= 70
      [] s = "thin" -> kw.orderbook_thin
      [] s = "inflow" -> kw.btc_inflow_spike

\* kw with signal s switched off and nothing else changed
SwitchedOff(s, kw) ==
    CASE s \in { "strong", "oversold" } -> [kw EXCEPT !.momentum_health = "neutral"]
      [] s \in { "rsi_healthy", "rsi_overbought" } -> [kw EXCEPT !.rsi = None]
      [] s = "volume_rising" -> [kw EXCEPT !.volume_rising = FALSE]
      [] s = "tight_spread" -> [kw EXCEPT !.spread_percent = None]
      [] s \in { "positive_news", "negative_news" } ->
            [kw EXCEPT !.news_sentiment = "neutral"]
      [] s = "cg_community" -> [kw EXCEPT !.cg_community_score = None]
      [] s = "cg_developer" -> [kw EXCEPT !.cg_developer_score = None]
      [] s = "cg_public_interest" -> [kw EXCEPT !.cg_public_interest_score = None]
      [] s = "cg_sentiment" -> [kw EXCEPT !.cg_sentiment_percentage = None]
      [] s = "thin" -> [kw EXCEPT !.orderbook_thin = FALSE]
      [] s = "inflow" -> [kw EXCEPT !.btc_inflow_spike = FALSE]

RECURSIVE SumOfDeltas(_)
SumOfDeltas(signals) ==
    IF signals = {} THEN 0
    ELSE LET s == CHOOSE x \in signals : TRUE
         IN  TableDelta(s) + SumOfDeltas(signals \ {s})

\* a call of calculate_breakout_score has returned
ScoreReturned ==
    /\ args # None
    /\ Val(args).fn = "calculate_breakout_score"
    /\ returned # None

\* C11: what calculate_breakout_score returns is the sum of the table's
\* deltas over the signals that hold of its arguments, a function of the
\* arguments alone; and the same call with one of those signals switched
\* off returns that signal's delta less.
C11_ScoreIsTheSumOfTheDeltas ==
    ScoreReturned =>
        LET kw == Val(args).kw
            holding == { s \in ScoreSignals : SignalHolds(s, kw) }
        IN  /\ Val(returned) = SumOfDeltas(holding)
            /\ \A s \in holding :
                  Val(returned) - calculate_breakout_score(SwitchedOff(s, kw))
                     = TableDelta(s)

\* C11 witness: a call with every positive signal and the three penalties
\* that go with them, returning 10 - 3
C11_AllSignalsButTheExclusive ==
    /\ ScoreReturned
    /\ Cardinality({ s \in ScoreSignals : SignalHolds(s, Val(args).kw) }) = 11
    /\ SignalHolds("negative_news", Val(args).kw)
    /\ Val(returned) = 5

\* the bound the scoring documents (the clamp of line 125, commented out)
ScoreBound == (0 - 5) .. 10

\* update_data is about to be called for the first time
BeforeFirstCycle == ud_pc = "idle" /\ cycle_result = "none"

\* C12: calculate_breakout_score returns an integer of -5 .. 10 for every
\* combination of its arguments, absent ones included, and so is every
\* breakout_score of the coins update_data has processed and of the coins
\* of the snapshot.
C12_ScoreWithinBound ==
    /\ BeforeFirstCycle =>
          \A sig \in ScoreInputs : calculate_breakout_score(sig) \in ScoreBound
    /\ \A i \in 1 .. Len(processed_coins_data) :
          processed_coins_data[i].breakout_score \in ScoreBound
    /\ "processed_coins" \in DOMAIN sentiment_data =>
          \A i \in 1 .. Len(sentiment_data["processed_coins"]) :
             sentiment_data["processed_coins"][i].breakout_score \in ScoreBound

\* C12 witness: a published snapshot of two coins with different scores
C12_TwoScoresPublished ==
    /\ cycle_result = "published"
    /\ Len(sentiment_data["processed_coins"]) = 2
    /\ sentiment_data["processed_coins"][1].breakout_score
          # sentiment_data["processed_coins"][2].breakout_score

\* the rule C13 gives for the signal, first match first
SignalRule(score, confirmed, fg_score, health) ==
    IF score >= 5 /\ confirmed /\ fg_score > 40 /\ health = "strong" THEN "BUY"
    ELSE IF score <= 1 \/ fg_score < 30 \/ health = "weak" THEN "SELL/AVOID"
    ELSE "CAUTION"

\* C13: the signal of every coin of the snapshot is the one the rule gives
\* for the coin's score, confirmation, fear/greed score and momentum health.
C13_SignalFollowsTheRule ==
    "processed_coins" \in DOMAIN sentiment_data =>
        \A i \in 1 .. Len(sentiment_data["processed_coins"]) :
           LET coin == sentiment_data["processed_coins"][i]
           IN  coin.signal = SignalRule(coin.breakout_score,
                                        coin.multi_timeframe_confirmation,
                                        coin.fear_greed_context.score,
                                        coin.momentum_health)

\* the answer of GET /scalp-sentiment on its way out, when it is a 200
ScalpAnswered ==
    /\ resp # None
    /\ Val(resp).path = "/scalp-sentiment"
    /\ Val(resp).status = 200

\* the six rules C14 gives beside the one on the spread
ScalpRulesBesideSpread(coin) ==
    /\ coin.volatility_zone \in { "Very Low Volatility", "Low Volatility" }
    /\ coin.multi_timeframe_confirmation = TRUE
    /\ coin.breakout_score >= 6
    /\ coin.rsi_1h # None
    /\ Val(coin.rsi_1h) \in (45 * RsiUnit) .. (65 * RsiUnit)
    /\ coin.time_estimate_to_tp \in { "1-3 hours" }
    /\ coin.momentum_health = "strong"

\* spread at most 0.3 percent
ScalpRulesAtMost(coin) ==
    /\ coin.bid_ask_spread_percent # None
    /\ 10 * Val(coin.bid_ask_spread_percent) <= Pct(3)
    /\ ScalpRulesBesideSpread(coin)

\* spread strictly below 0.3 percent
ScalpRulesBelow(coin) ==
    /\ coin.bid_ask_spread_percent # None
    /\ 10 * Val(coin.bid_ask_spread_percent) < Pct(3)
    /\ ScalpRulesBesideSpread(coin)

\* what C14 says of the answer, for a given reading of the rules
ScalpAnswerIs(Rules(_)) ==
    ScalpAnswered =>
        LET body == Val(resp).body
            snapshot == Val(Val(resp).read)
        IN  /\ body.qualified_coins = SelectSeq(snapshot["processed_coins"], Rules)
            /\ body.total_qualified = Len(body.qualified_coins)
            /\ body.total_checked_in_full_run = Len(snapshot["processed_coins"])

\* C14 (amended): GET /scalp-sentiment returns, in the snapshot's order,
\* the coins of the snapshot with a spread of at most 0.3 percent that meet
\* the six other rules; total_qualified is their number and
\* total_checked_in_full_run the number of coins of the snapshot.
C14_ScalpReturnsCoinsUpToTheCeiling == ScalpAnswerIs(ScalpRulesAtMost)

\* C14 as stated: the spread is strictly below 0.3 percent
C14_ScalpReturnsCoinsBelowTheCeiling == ScalpAnswerIs(ScalpRulesBelow)

\* C14 witness: of a snapshot of two coins, one with a spread of 0.3
\* percent and one with 0.4, the answer holds the first and not the second
C14_OneOfTwoQualifies ==
    /\ ScalpAnswered
    /\ Val(resp).body.total_checked_in_full_run = 2
    /\ Val(resp).body.total_qualified = 1
    /\ Val(resp).body.qualified_coins[1].bid_ask_spread_percent = Some(Pct(3) \div 10)
    /\ \E i \in 1 .. 2 :
          Val(Val(resp).read)["processed_coins"][i].bid_ask_spread_percent
             = Some(Pct(4) \div 10)

\* C15: once a full cycle has completed, get_health does not answer
\* "initializing", and when more than 90 minutes have passed since the
\* last completed full cycle it answers "stale_data".
C15_HealthStaleAfterNinetyMinutes ==
    ~IsNone(last_full_update_time) =>
        /\ get_health.body.status # "initializing"
        /\ (now - Val(last_full_update_time) > HEALTH_STALE_AFTER
               => get_health.body.status = "stale_data")

\* C16: GET /sentiment is answered as get_sentiment answers, and once a
\* full cycle has completed the answer is a 200 carrying the snapshot with
\* its four keys.
C16_SentimentServesTheSnapshot ==
    LET answer == Dispatch("/sentiment")
    IN  /\ answer.status = get_sentiment.status
        /\ ~IsNone(last_full_update_time) =>
              /\ answer.status = 200
              /\ DOMAIN sentiment_data = SnapshotKeys

\* C17: once the server is up, GET /market answers 503 while market_data
\* is empty; once a ticker map is stored it answers with that map and with
\* a timestamp that is not null (the time of the fetch that stored the map).
C17_MarketCarriesItsFetchTime ==
    basic_pc = "done" =>
        /\ market_data = EmptyDict => get_market.status = 503
        /\ market_data # EmptyDict =>
              /\ get_market.status = 200
              /\ get_market.body.data = market_data
              /\ ~IsNone(get_market.body.timestamp)

\* a provider fetch function called on its own has returned or raised
FetchReturned ==
    /\ args # None
    /\ Val(args).fn \in BybitFetches \cup PlainFetches
    /\ returned # None

\* the attempts C18 asks for: an attempt that ends in a transport error, a
\* 429 or a 5xx is made again, up to 3 times
RECURSIVE AttemptsAskedFor(_, _)
AttemptsAskedFor(script, i) ==
    IF script[i] \in { "transport", "http429", "http500", "http501" } /\ i <= 3
    THEN AttemptsAskedFor(script, i + 1)
    ELSE i

\* C18: every provider fetch makes its request again after a transport
\* error, a 429 or a 5xx, up to 3 times, and makes one attempt when the
\* answer is another 4xx.
C18_EveryFetchRetries ==
    FetchReturned => Val(returned).attempts = AttemptsAskedFor(Val(args).script, 1)

\* C19: no provider fetch function raises: whatever its request ends with,
\* it returns data or its unavailable value.
C19_NoFetchRaises ==
    FetchReturned => Val(returned).outcome \in { "data", "unavailable" }

\* C20: between two consecutive requests to CoinGecko the sender has
\* slept COINGECKO_DELAY at least, whatever the earlier request came to
\* and whatever the state of the coin-list cache.
C20_DelayBetweenCoinGeckoRequests ==
    ~IsNone(cg_wire.shortest) => Val(cg_wire.shortest) >= COINGECKO_DELAY

\* the ticker of this cycle's own fetch for a candidate of the cycle
OwnTicker(coin_symbol) == bybit_market_data[UsdtOf(coin_symbol)]

\* what lines 332-399 make of a candidate's own ticker
FromOwnTicker(coin_symbol) ==
    BeforeAnalysis(Some(OwnTicker(coin_symbol)),
                   IF coin_symbol \in DOMAIN basic_coin_data
                   THEN Some(basic_coin_data[coin_symbol]) ELSE None,
                   None)

\* C21: within one cycle of update_data every candidate's ticker is read
\* from the map fetched at the start of that cycle, whatever
\* fetch_and_process_basic_data stores in market_data meanwhile: no
\* candidate is found missing from the map it was listed from, and each
\* one's volatility zone is the zone of its own ticker
C21_TickersComeFromTheCyclesFetch ==
    \A c \in DOMAIN calls :
        /\ calls[c].kind # "market_data_missing"
        /\ calls[c].kind \notin { "continue", "raise" } =>
              calls[c].zone = FromOwnTicker(c).zone

\* the coins of a list carry the context values fg and ctx
ScoredWith(coins, fg, ctx) ==
    \A i \in 1 .. Len(coins) :
        /\ coins[i].fear_greed_context = fg
        /\ coins[i].sector = Get(ctx.sector_lookup, Upper(coins[i].symbol), "Unknown")
        /\ coins[i].reddit_mentions = Get(ctx.reddit_mentions, coins[i].symbol, 0)
        /\ coins[i].news_sentiment = "neutral"

\* C22: within one cycle of update_data every symbol is scored and
\* labelled with the same context values (fear/greed, news, sector lookup,
\* mention counts): those the cycle fetched before its loop, which no round
\* of the loop assigns again, and the fear/greed value published beside the
\* coins is the one they carry
C22_OneContextPerCycle ==
    /\ [](/\ ScoredWith(processed_coins_data, fear_greed, context)
          /\ { "fear_greed", "processed_coins" } \subseteq DOMAIN sentiment_data =>
                \A i \in 1 .. Len(sentiment_data["processed_coins"]) :
                    sentiment_data["processed_coins"][i].fear_greed_context =
                        sentiment_data["fear_greed"])
    /\ [][ud_pc = "loop" => UNCHANGED << fear_greed, context >>]_vars

\* two coins analysed in a cycle whose context fetches all answered
C22_TwoCoinsOneRichContext ==
    /\ Len(processed_coins_data) = 2
    /\ fear_greed.score = 25
    /\ processed_coins_data[2].sector = "Layer 1"
    /\ processed_coins_data[1].reddit_mentions = 2

\* a call of fn has returned
Returned(fn) == args # None /\ Val(args).fn = fn /\ returned # None

\* the zone the thresholds 3, 7, 12 and 18 give a percentage
ZoneByThresholds(v) ==
    CASE v <= Pct(3) -> "Very Low Volatility"
      [] v > Pct(3) /\ v <= Pct(7) -> "Low Volatility"
      [] v > Pct(7) /\ v <= Pct(12) -> "Medium Volatility"
      [] v > Pct(12) /\ v <= Pct(18) -> "High Volatility"
      [] OTHER -> "Very High Volatility"

\* C23: determine_volatility_zone gives every non-negative percentage the
\* one zone of the five its thresholds name (<= 3 Very Low, <= 7 Low,
\* <= 12 Medium, <= 18 High, otherwise Very High), and gives None and every
\* negative percentage the Unknown zone
C23_ZoneOfEveryPercentage ==
    Returned("determine_volatility_zone") =>
        LET volatility == Val(args).kw.volatility
            zone == Val(returned)[1]
        IN  IF IsNone(volatility) \/ Val(volatility) < 0
            THEN zone = "Unknown Volatility"
            ELSE zone = ZoneByThresholds(Val(volatility))

C25_EstimateByScoreAndZone ==
    Returned("estimate_time_to_tp") =>
        LET score == Val(args).kw.score
            zone == Val(args).kw.volatility_zone
        IN  Val(returned) =
                CASE IsNone(score) \/ IsNone(zone) -> "Uncertain"
                  [] ~IsNone(score) /\ ~IsNone(zone) /\ Val(score) >= 7
                        /\ Val(zone) \in { "Very Low Volatility", "Low Volatility" } ->
                        "1-3 hours"
                  [] ~IsNone(score) /\ ~IsNone(zone) /\ Val(score) >= 5
                        /\ ~(Val(score) >= 7
                             /\ Val(zone) \in { "Very Low Volatility", "Low Volatility" }) ->
                        "4-6 hours"
                  [] ~IsNone(score) /\ ~IsNone(zone) /\ Val(score) >= 3 /\ Val(score) < 5 ->
                        "6-12 hours"
                  [] OTHER -> "Uncertain"

\* a score of 8 in a zone that is not a low one has been given 4-6 hours
C25_HighScoreOutsideLowZone ==
    /\ Returned("estimate_time_to_tp")
    /\ Val(args).kw = [score |-> Some(8), volatility_zone |-> Some("High Volatility")]
    /\ Val(returned) = "4-6 hours"

\* C26: given a series shorter than it needs (fewer than period values for
\* calculate_ema, fewer than period + 1 closes for calculate_rsi, the empty
\* list and None among them), the function returns None
C26_ShortSeriesGiveNone ==
    /\ Returned("calculate_ema")
          /\ Len(ListOf(Val(args).kw.values)) < Val(args).kw.period =>
          Val(returned) = None
    /\ Returned("calculate_rsi")
          /\ Len(ListOf(Val(args).kw.closes)) < Val(args).kw.period + 1 =>
          Val(returned) = None

\* calculate_ema has returned for a list one value short of its period
C26_OneValueShort ==
    /\ Returned("calculate_ema")
    /\ Val(args).kw.period = 3
    /\ Len(ListOf(Val(args).kw.values)) = 2
    /\ Val(returned) = None

\* the rises (sign 1) or the falls (sign -1) among the first period
\* differences of a series, summed
RECURSIVE FirstMoves(_, _, _)
FirstMoves(closes, period, sign) ==
    IF period = 0 THEN 0
    ELSE LET d == sign * (closes[period + 1] - closes[period])
         IN  (IF d > 0 THEN d ELSE 0) + FirstMoves(closes, period - 1, sign)

\* C27: given at least period + 1 closes, calculate_rsi returns 100 when the
\* average loss over the first period differences is 0 and the average gain
\* is positive, 50 when both are 0, and in every case a value within 0..100
C27_RsiWithoutLossAndWithinBounds ==
    Returned("calculate_rsi")
        /\ Len(ListOf(Val(args).kw.closes)) >= Val(args).kw.period + 1 =>
        LET closes == ListOf(Val(args).kw.closes)
            period == Val(args).kw.period
            gains == FirstMoves(closes, period, 1)
            losses == FirstMoves(closes, period, 0 - 1)
            rsi == Val(returned)
        IN  /\ ~IsNone(rsi)
            /\ Val(rsi) >= 0 /\ Val(rsi) <= 100 * RsiUnit
            /\ losses = 0 /\ gains > 0 => Val(rsi) = 100 * RsiUnit
            /\ losses = 0 /\ gains = 0 => Val(rsi) = 50 * RsiUnit

\* calculate_rsi has returned 100 for a series that rises, then falls
\* after the first period differences
C27_NoLossInTheFirstPeriod ==
    /\ Returned("calculate_rsi")
    /\ Val(args).kw = [closes |-> Some(<< 1, 2, 4, 1 >>), period |-> 2]
    /\ Val(returned) = Some(100 * RsiUnit)

\* update_data is not between its clear() of line 521 and its last store
NoPublishInProgress == ud_pc \notin PublishSteps

\* C28: once a stored snapshot has held at least one coin, then whenever no
\* publish is in progress get_health does not report "initializing" and
\* get_scalp_sentiment does not answer that the data is not available: a
\* later cycle that filters every symbol out does not make the service
\* not ready again
C28_ReadyOnceReadyForGood ==
    ever_published /\ NoPublishInProgress =>
        /\ get_health.body.status # "initializing"
        /\ get_scalp_sentiment.status # 503

\* the round of the loop last run fetched an order book, and got one
LastBookFetched ==
    /\ ud_pc # "idle"
    /\ coin_index > 0
    /\ "orderbook" \in calls[potential_coins[coin_index]].made
    /\ orderbook_data # None

\* (bestAsk - bestBid) / lastPrice * 100 of the book fetch_orderbook
\* returned, unavailable when a side is empty or the best bid is not
\* positive
SpreadAsStated(book, last_price) ==
    IF book.b # << >> /\ book.a # << >> /\ Float(book.b[1]) > 0
    THEN Some(PercentOf(Float(book.a[1]) - Float(book.b[1]), last_price))
    ELSE None

\* C29: the spread update_data computes for a candidate is
\* (bestAsk - bestBid) / lastPrice * 100 whenever both sides of its order
\* book are non-empty and the best bid is positive, a locked or crossed book
\* included, and is unavailable only when a side is empty or the best bid is
\* not positive
C29_SpreadOfEveryTwoSidedBook ==
    LastBookFetched =>
        LET c == potential_coins[coin_index]
        IN  calls[c].spread_percent =
                SpreadAsStated(Val(orderbook_data),
                               Float(bybit_market_data[UsdtOf(c)].lastPrice))

\* the coin_data a cycle has appended for a candidate
CoinOf(coin_symbol) ==
    CHOOSE coin \in { processed_coins_data[i] : i \in 1 .. Len(processed_coins_data) } :
        coin.symbol = coin_symbol

\* the score of a coin's signals with the volume signal left out
\* (spread_percent is the coin's spread before it was rounded)
ScoreWithoutVolume(coin, spread_percent) ==
    calculate_breakout_score(
        [rsi |-> coin.rsi_1h,
         volume_rising |-> FALSE,
         news_sentiment |-> coin.news_sentiment,
         spread_percent |-> spread_percent,
         btc_inflow_spike |-> coin.btc_inflow_spike,
         orderbook_thin |-> coin.is_thin,
         momentum_health |-> coin.momentum_health,
         cg_sentiment_percentage |-> coin.cg_sentiment_votes_up_percentage,
         cg_community_score |-> coin.cg_community_score,
         cg_developer_score |-> coin.cg_developer_score,
         cg_public_interest_score |-> coin.cg_public_interest_score])

\* C30: a symbol whose 1h candles give fewer than 3 volumes, none at all
\* included, gets no bonus for rising volume: the volume signal adds 0 to
\* its breakout score
C30_NoVolumeBonusOnShortSeries ==
    \A c \in DOMAIN calls :
        calls[c].kind = "processed" /\ Len(Val(calls[c].volumes)) < 3 =>
            CoinOf(c).breakout_score = ScoreWithoutVolume(CoinOf(c), calls[c].spread_percent)

\* some difference of a series after its first period differences is a fall
LaterLoss(closes, period) ==
    \E i \in (period + 1) .. (Len(closes) - 1) : closes[i + 1] < closes[i]

\* C31: calculate_rsi smooths over every difference of the series: when
\* the first period differences hold no loss and a later one is a loss, the
\* result is strictly below 100
C31_LaterLossLowersTheRsi ==
    Returned("calculate_rsi")
        /\ Len(ListOf(Val(args).kw.closes)) >= Val(args).kw.period + 1 =>
        LET closes == ListOf(Val(args).kw.closes)
            period == Val(args).kw.period
        IN  FirstMoves(closes, period, 0 - 1) = 0 /\ LaterLoss(closes, period) =>
                /\ ~IsNone(Val(returned))
                /\ Val(Val(returned)) < 100 * RsiUnit

\* fetch_candles answered with at least 20 candles whose closes are
\* numbers, and last_price is above their EMA20
AboveEma20(candle_data, last_price) ==
    /\ ~IsNone(candle_data)
    /\ Len(Val(candle_data).list) >= 20
    /\ ~ClosesRaise(Val(candle_data).list)
    /\ LET ema20 == Val(calculate_ema(ClosesOf(Val(candle_data).list), 20))
       IN  last_price * ema20[2] > ema20[1]

\* C32: analyze_timeframes confirms a bullish trend if and only if for
\* each of 15m, 1h and 4h candles were obtained, their EMA20 could be
\* computed and last_price is strictly above it, and its result has a status
\* for each of the three timeframes
C32_ConfirmationIffAllAboveEma ==
    Returned("analyze_timeframes") =>
        LET kw == Val(args).kw
            r == Val(returned)
        IN  /\ ~r.raised
            /\ DOMAIN r.results = { "15m", "1h", "4h" }
            /\ r.bullish_confirm <=>
                   /\ AboveEma20(kw.c15, kw.last_price)
                   /\ AboveEma20(kw.c60, kw.last_price)
                   /\ AboveEma20(kw.c240, kw.last_price)

\* a ticker of a USDT pair whose lastPrice, highPrice24h and lowPrice24h are
\* numbers, the lastPrice above 0
CompleteTicker(market) ==
    /\ EndsWithUSDT(market.symbol)
    /\ CanFloat(market.lastPrice) /\ Float(market.lastPrice) > 0
    /\ CanFloat(market.highPrice24h)
    /\ CanFloat(market.lowPrice24h)

\* C33: a fetch_and_process_basic_data run whose ticker fetch succeeds
\* leaves in basic_coin_data one record, with the zone of its 24 h range,
\* for every USDT pair whose lastPrice > 0, highPrice24h and lowPrice24h are
\* numbers, sets last_basic_update_time, and calls neither the order book,
\* the candles nor the symbol metrics
C33_BasicFetchRecordsEveryPair ==
    [][(\E tickers \in TickerMaps : Basic_Fetch(tickers)) =>
          /\ last_basic_update_time' = Some(now)
          /\ \A key \in DOMAIN market_data' :
                CompleteTicker(market_data'[key]) =>
                    /\ BaseOf(key) \in DOMAIN basic_coin_data'
                    /\ LET market == market_data'[key]
                           volatility ==
                               ((Float(market.highPrice24h) - Float(market.lowPrice24h))
                                   * 100 * Scale) \div Float(market.lastPrice)
                       IN  basic_coin_data'[BaseOf(key)].volatility_zone =
                               determine_volatility_zone(Some(volatility))[1]
          /\ UNCHANGED << orderbook_data, calls, proxyVars >>]_vars

\* the sum of the counts a skipped_counts dict holds
SkippedTotal(skipped_counts) ==
    LET count(key) == Get(skipped_counts, key, 0)
    IN  count("market_data_missing") + count("missing_spread_full")
            + count("high_spread_full") + count("wrong_volatility_full")
            + count("unexpected_error_full")

\* C34: the update summary of every published snapshot accounts for every
\* candidate: total_potential_coins is successfully_processed_full plus the
\* sum of the skipped_counts, the counts being kept under the five skip
\* reasons only
C34_SummaryAccountsForEveryCandidate ==
    "update_summary" \in DOMAIN sentiment_data =>
        LET summary == sentiment_data["update_summary"]
        IN  /\ DOMAIN summary.skipped_counts \subseteq SkipReasons
            /\ summary.total_potential_coins =
                   summary.successfully_processed_full
                       + SkippedTotal(summary.skipped_counts)

\* the score of a coin's signals without the thin-order-book penalty
\* (spread_percent is the coin's spread before it was rounded)
ScoreWithoutThinPenalty(coin, spread_percent) ==
    calculate_breakout_score(
        [rsi |-> coin.rsi_1h,
         volume_rising |-> IF ~IsNone(coin.volume_divergence_1h)
                           THEN ~Val(coin.volume_divergence_1h) ELSE FALSE,
         news_sentiment |-> coin.news_sentiment,
         spread_percent |-> spread_percent,
         btc_inflow_spike |-> coin.btc_inflow_spike,
         orderbook_thin |-> FALSE,
         momentum_health |-> coin.momentum_health,
         cg_sentiment_percentage |-> coin.cg_sentiment_votes_up_percentage,
         cg_community_score |-> coin.cg_community_score,
         cg_developer_score |-> coin.cg_developer_score,
         cg_public_interest_score |-> coin.cg_public_interest_score])

\* C35: every coin of a published snapshot has the thin flag false, and the
\* breakout score of every processed candidate is its score without the
\* thin-order-book penalty
C35_NoPublishedCoinIsThin ==
    /\ "processed_coins" \in DOMAIN sentiment_data =>
          \A i \in 1 .. Len(sentiment_data["processed_coins"]) :
             ~sentiment_data["processed_coins"][i].is_thin
    /\ \A c \in DOMAIN calls :
          calls[c].kind = "processed" =>
             /\ ~CoinOf(c).is_thin
             /\ CoinOf(c).breakout_score =
                    ScoreWithoutThinPenalty(CoinOf(c), calls[c].spread_percent)

\* C35 witness: a snapshot is stored that holds a coin, from a cycle whose
\* spread filter dropped another candidate for a spread above 1.5
C35_PublishedBesideHighSpread ==
    /\ Stored
    /\ Len(sentiment_data["processed_coins"]) = 1
    /\ "high_spread_full" \in DOMAIN sentiment_data["update_summary"].skipped_counts
    /\ \E c \in DOMAIN calls :
          /\ calls[c].kind = "high_spread_full"
          /\ Val(calls[c].spread_percent) > SPREAD_THRESHOLD

\* C36: every coin GET /scalp-sentiment returns has a breakout score of at
\* least 7: the rule on the time estimate lets only the 1-3 hour label
\* pass, which no score below 7 is given
C36_ScalpCoinsScoreAtLeastSeven ==
    ScalpAnswered =>
        \A i \in 1 .. Len(Val(resp).body.qualified_coins) :
            Val(resp).body.qualified_coins[i].breakout_score >= 7

\* C36 witness: of a snapshot of two coins with the same spread, one with
\* a score of 6 and one with a score of 7, the answer holds the second only
C36_SixIsLeftOutSevenReturned ==
    /\ ScalpAnswered
    /\ Val(resp).body.total_checked_in_full_run = 2
    /\ Val(resp).body.total_qualified = 1
    /\ Val(resp).body.qualified_coins[1].breakout_score = 7
    /\ \E i \in 1 .. 2 :
          LET coin == Val(Val(resp).read)["processed_coins"][i]
          IN  /\ coin.breakout_score = 6
              /\ coin.bid_ask_spread_percent
                     = Val(resp).body.qualified_coins[1].bid_ask_spread_percent
              /\ coin.rsi_1h = Val(resp).body.qualified_coins[1].rsi_1h
              /\ coin.momentum_health = "strong"
              /\ coin.multi_timeframe_confirmation

\* C37: a fetch_coingecko_metrics call whose detail request fails leaves
\* _COIN_DETAIL_CACHE as it was, an entry for the coin included; a call
\* whose request succeeds puts the coin's entry, the time of the call and
\* what it returns, and leaves every other entry as it was
C37_DetailCacheWrittenOnSuccessOnly ==
    [][\A th \in Threads :
          (cg[th].pc = "request" /\ cg'[th].pc = "idle") =>
              LET coin_id == cg[th].coin_id
                  call == cg_done'[1]
              IN  IF call.outcome = "failed"
                  THEN _COIN_DETAIL_CACHE' = _COIN_DETAIL_CACHE
                  ELSE /\ DOMAIN _COIN_DETAIL_CACHE' =
                             DOMAIN _COIN_DETAIL_CACHE \cup { coin_id }
                       /\ _COIN_DETAIL_CACHE'[coin_id] = << cg[th].t, call.result >>
                       /\ \A other \in DOMAIN _COIN_DETAIL_CACHE \ { coin_id } :
                             _COIN_DETAIL_CACHE'[other] = _COIN_DETAIL_CACHE[other]]_vars

\* C37 witness: with bitcoin's entry in the cache, a call for ETH stored
\* ethereum's; the next call, for BTC, found bitcoin's entry stale, its
\* request failed, and both entries are as they were
C37_FailedBesideStored ==
    /\ Len(cg_done) = 2
    /\ cg_done[2].outcome = "ok"
    /\ cg_done[2].coin_id = Some("ethereum")
    /\ cg_done[1].outcome = "failed"
    /\ cg_done[1].coin_id = Some("bitcoin")
    /\ DOMAIN _COIN_DETAIL_CACHE = { "bitcoin", "ethereum" }
    /\ _COIN_DETAIL_CACHE["bitcoin"][1] < cg_done[2].t
    /\ _COIN_DETAIL_CACHE["ethereum"] = << cg_done[2].t, cg_done[2].result >>

\* the slug the call that thread t1 has just entered found for its symbol
SlugFound ==
    IF cg'["t1"].pc = "delay" THEN Some(cg'["t1"].coin_id) ELSE cg_done'[1].coin_id

\* the id of the first entry of coins_list that names symbol
FirstSlug(coins_list, symbol) ==
    LET names(i) == Upper(coins_list[i].symbol) = symbol
        first == CHOOSE i \in 1 .. Len(coins_list) :
                     names(i) /\ \A j \in 1 .. (i - 1) : ~names(j)
    IN  coins_list[first].id

\* C38: a call that finds the coin list empty or stale refreshes it; when
\* the refresh fails the mapping and its last-updated time stay as they
\* were and the call's lookup is answered from that mapping; when it
\* succeeds every symbol the list names is stored with the first slug the
\* list gives it
C38_FailedListRefreshKeepsTheMapping ==
    [][\A symbol \in CallerSymbols, coins_list \in CoinListResponses :
          (CG_Enter("t1", symbol, coins_list) /\ ListStale(now)) =>
              IF coins_list = None
              THEN /\ _COIN_LIST_CACHE' = _COIN_LIST_CACHE
                   /\ _LIST_CACHE_LAST_UPDATED' = _LIST_CACHE_LAST_UPDATED
                   /\ SlugFound = IF symbol \in DOMAIN _COIN_LIST_CACHE
                                  THEN Some(_COIN_LIST_CACHE[symbol]) ELSE None
              ELSE /\ DOMAIN _COIN_LIST_CACHE' =
                         { Upper(coins_list[i].symbol) : i \in 1 .. Len(coins_list) }
                   /\ \A s \in DOMAIN _COIN_LIST_CACHE' :
                         _COIN_LIST_CACHE'[s] = FirstSlug(coins_list, s)
                   /\ _LIST_CACHE_LAST_UPDATED' = now]_vars

\* C38 witness: the mapping came from a list that names BTC twice and holds
\* its first slug; a call for BTC made when the list was stale, whose refresh
\* failed, was answered with that slug
C38_StaleMappingStillAnswers ==
    /\ cg_done # << >>
    /\ cg_done[1].t - _LIST_CACHE_LAST_UPDATED > LIST_CACHE_REFRESH_INTERVAL
    /\ cg_done[1].symbol = "BTC"
    /\ cg_done[1].coin_id = Some("bitcoin")
    /\ _COIN_LIST_CACHE = BuildListCache(
           << [symbol |-> "btc", id |-> "bitcoin"],
              [symbol |-> "eth", id |-> "ethereum"],
              [symbol |-> "btc", id |-> "bitcoin-clone"] >>, EmptyDict)

====
